---- MODULE Spec2Model ----
(***************************************************************************)
(* Model of the component-similarity engine of                            *)
(* .cursor/hooks/component-check.py: normalize_name, get_semantic_groups,  *)
(* fuzzy_score and find_similar.                                           *)
(*                                                                         *)
(* Strings are sequences of one-character strings.  A score is an exact    *)
(* rational: for one (target, component) pair every score of the loop body *)
(* is a numerator over the common denominator 100 * den, where den is the  *)
(* summed length of the two keys (1 when both are empty).  0.60 is         *)
(* 60 * den, a threshold of h hundredths is h * den.  Reported scores, the *)
(* result of round(.., 2), are integers counting hundredths.               *)
(***************************************************************************)
EXTENDS Integers, Sequences, FiniteSets, TLC

(***************************************************************************)
(* Bounds of the explored inputs.                                          *)
(***************************************************************************)
\* longest inventory drawn from FileNames
MaxInv == 2
\* longest inventory drawn from LongFileNames (lengths TopK .. MaxLong)
MaxLong == 6
\* most NameTokens in one name
MaxParts == 3
\* most files under src/components in a run of the component-check hook
MaxTree == 2
\* most modified files in a run of the architecture-guard hook
MaxFiles == 2
\* most import statements in one source file
MaxImports == 1
\* most fields in the payload given to the secret-guardian hook
MaxFields == 2
\* most lines in a migration file
MaxLines == 3
\* most names supabase/functions holds before scaffold runs
MaxExisting == 1

(***************************************************************************)
(* Program constants.                                                      *)
(***************************************************************************)
\* FUZZY_THRESHOLD = 0.55
FUZZY_THRESHOLD == 55
\* score = max(score, 0.60)
SemanticFloor == 60
\* score += 0.15 * len(overlap)
SemanticBoost == 15
\* score = max(score, 0.70)
ContainFloor == 70
\* return scored[:5]
TopK == 5

(***************************************************************************)
(* Input names.                                                            *)
(***************************************************************************)
TargetNames ==
  { <<"C","o","n","f","i","r","m","M","o","d","a","l",".","t","s","x">>,   \* 'ConfirmModal.tsx'
    <<"W","i","d","g","e","t","4","2",".","t","s","x">>,   \* 'Widget42.tsx'
    <<"i","n","p","u","t">>,   \* 'input'
    <<"u","s","e">>,   \* 'use'
    <<"u","s","e","u","s","e","D","i","a","l","o","g">>,   \* 'useuseDialog'
    <<"w","i","t","h","-","d","r","a","w","e","r",".","t","s">>,   \* 'with-drawer.ts'
    <<"Q","R">>,   \* 'QR'
    <<"u","s","e","D","i","a","l","o","g",".","t","s","x">>,   \* 'useDialog.tsx'
    <<"B","u","t","t","o","n",".","t","s","x">>,   \* 'Button.tsx'
    <<"D","i","a","l","o","g",".","T","S","X">> }   \* 'Dialog.TSX'

FileNames ==
  { <<"C","o","n","f","i","r","m","D","i","a","l","o","g",".","t","s","x">>,   \* 'ConfirmDialog.tsx'
    <<"B","u","t","t","o","n",".","t","s","x">>,   \* 'Button.tsx'
    <<"C","a","r","d",".","t","s","x">>,   \* 'Card.tsx'
    <<"T","e","x","t","I","n","p","u","t",".","t","s","x">>,   \* 'TextInput.tsx'
    <<"Q","R","S","c","a","n","n","e","r",".","t","s","x">>,   \* 'QRScanner.tsx'
    <<"u","s","e",".","t","s">> }   \* 'use.ts'

LongFileNames ==
  { <<"B","u","t","t","o","n",".","t","s","x">>,   \* 'Button.tsx'
    <<"I","c","o","n","B","u","t","t","o","n",".","t","s","x">> }   \* 'IconButton.tsx'

\* targets checked against the long inventories
LongTargetNames ==
  { <<"B","u","t","t","o","n",".","t","s","x">>,   \* 'Button.tsx'
    <<"u","s","e">> }   \* 'use'

\* pieces the names of the normalization runs are put together from
NameTokens ==
  { <<"u","s","e">>, <<"w","i","t","h">>, <<"-">>, <<"_">>, <<".">>,
    <<"D","i","a","l","o","g">>, <<"t","a","b">>,
    <<".","t","s","x">>, <<".","T","S","X">> }

\* thresholds passed to find_similar, in hundredths (the default, a lower
\* and a higher one)
Thresholds == {0, FUZZY_THRESHOLD, 110}

(***************************************************************************)
(* SEMANTIC_GROUPS: concept tag -> synonym keywords.                       *)
(***************************************************************************)
SEMANTIC_GROUPS ==
  [ dialog |-> {   \* modal, dialog, alertdialog, confirm, confirmdialog, confirmmodal, prompt, popup, overlay, lightbox
        <<"m","o","d","a","l">>,
        <<"d","i","a","l","o","g">>,
        <<"a","l","e","r","t","d","i","a","l","o","g">>,
        <<"c","o","n","f","i","r","m">>,
        <<"c","o","n","f","i","r","m","d","i","a","l","o","g">>,
        <<"c","o","n","f","i","r","m","m","o","d","a","l">>,
        <<"p","r","o","m","p","t">>,
        <<"p","o","p","u","p">>,
        <<"o","v","e","r","l","a","y">>,
        <<"l","i","g","h","t","b","o","x">>
      },
    drawer |-> {   \* drawer, sheet, slideover, slideout, sidepanel
        <<"d","r","a","w","e","r">>,
        <<"s","h","e","e","t">>,
        <<"s","l","i","d","e","o","v","e","r">>,
        <<"s","l","i","d","e","o","u","t">>,
        <<"s","i","d","e","p","a","n","e","l">>
      },
    input |-> {   \* input, textfield, textbox, field, textinput, textarea
        <<"i","n","p","u","t">>,
        <<"t","e","x","t","f","i","e","l","d">>,
        <<"t","e","x","t","b","o","x">>,
        <<"f","i","e","l","d">>,
        <<"t","e","x","t","i","n","p","u","t">>,
        <<"t","e","x","t","a","r","e","a">>
      },
    select |-> {   \* select, dropdown, combobox, picker, autocomplete, typeahead, multiselect, autocompleteinput
        <<"s","e","l","e","c","t">>,
        <<"d","r","o","p","d","o","w","n">>,
        <<"c","o","m","b","o","b","o","x">>,
        <<"p","i","c","k","e","r">>,
        <<"a","u","t","o","c","o","m","p","l","e","t","e">>,
        <<"t","y","p","e","a","h","e","a","d">>,
        <<"m","u","l","t","i","s","e","l","e","c","t">>,
        <<"a","u","t","o","c","o","m","p","l","e","t","e","i","n","p","u","t">>
      },
    button |-> {   \* button, btn, iconbutton, submitbutton, actionbutton
        <<"b","u","t","t","o","n">>,
        <<"b","t","n">>,
        <<"i","c","o","n","b","u","t","t","o","n">>,
        <<"s","u","b","m","i","t","b","u","t","t","o","n">>,
        <<"a","c","t","i","o","n","b","u","t","t","o","n">>
      },
    table |-> {   \* table, datagrid, datatable, grid, virtualizedlist
        <<"t","a","b","l","e">>,
        <<"d","a","t","a","g","r","i","d">>,
        <<"d","a","t","a","t","a","b","l","e">>,
        <<"g","r","i","d">>,
        <<"v","i","r","t","u","a","l","i","z","e","d","l","i","s","t">>
      },
    card |-> {   \* card, tile, panel, surface
        <<"c","a","r","d">>,
        <<"t","i","l","e">>,
        <<"p","a","n","e","l">>,
        <<"s","u","r","f","a","c","e">>
      },
    navigation |-> {   \* nav, navbar, sidebar, menu, menubar, toolbar, appbar, topbar, bottomnav, navigationmenu, appsidebar
        <<"n","a","v">>,
        <<"n","a","v","b","a","r">>,
        <<"s","i","d","e","b","a","r">>,
        <<"m","e","n","u">>,
        <<"m","e","n","u","b","a","r">>,
        <<"t","o","o","l","b","a","r">>,
        <<"a","p","p","b","a","r">>,
        <<"t","o","p","b","a","r">>,
        <<"b","o","t","t","o","m","n","a","v">>,
        <<"n","a","v","i","g","a","t","i","o","n","m","e","n","u">>,
        <<"a","p","p","s","i","d","e","b","a","r">>
      },
    tabs |-> {   \* tabs, tab, tabpanel, tablist, segmented
        <<"t","a","b","s">>,
        <<"t","a","b">>,
        <<"t","a","b","p","a","n","e","l">>,
        <<"t","a","b","l","i","s","t">>,
        <<"s","e","g","m","e","n","t","e","d">>
      },
    toast |-> {   \* toast, toaster, snackbar, sonner
        <<"t","o","a","s","t">>,
        <<"t","o","a","s","t","e","r">>,
        <<"s","n","a","c","k","b","a","r">>,
        <<"s","o","n","n","e","r">>
      },
    notification |-> {   \* notification, notificationbell, notificationcenter, alert, flash, banner
        <<"n","o","t","i","f","i","c","a","t","i","o","n">>,
        <<"n","o","t","i","f","i","c","a","t","i","o","n","b","e","l","l">>,
        <<"n","o","t","i","f","i","c","a","t","i","o","n","c","e","n","t","e","r">>,
        <<"a","l","e","r","t">>,
        <<"f","l","a","s","h">>,
        <<"b","a","n","n","e","r">>
      },
    tooltip |-> {   \* tooltip, popover, hovercard, infotip
        <<"t","o","o","l","t","i","p">>,
        <<"p","o","p","o","v","e","r">>,
        <<"h","o","v","e","r","c","a","r","d">>,
        <<"i","n","f","o","t","i","p">>
      },
    form |-> {   \* form, formfield, fieldset, formgroup
        <<"f","o","r","m">>,
        <<"f","o","r","m","f","i","e","l","d">>,
        <<"f","i","e","l","d","s","e","t">>,
        <<"f","o","r","m","g","r","o","u","p">>
      },
    badge |-> {   \* badge, chip, tag, pill
        <<"b","a","d","g","e">>,
        <<"c","h","i","p">>,
        <<"t","a","g">>,
        <<"p","i","l","l">>
      },
    progress |-> {   \* progress, loading, spinner, skeleton, loader, indicator, segmentedprogress
        <<"p","r","o","g","r","e","s","s">>,
        <<"l","o","a","d","i","n","g">>,
        <<"s","p","i","n","n","e","r">>,
        <<"s","k","e","l","e","t","o","n">>,
        <<"l","o","a","d","e","r">>,
        <<"i","n","d","i","c","a","t","o","r">>,
        <<"s","e","g","m","e","n","t","e","d","p","r","o","g","r","e","s","s">>
      },
    breadcrumb |-> {   \* breadcrumb, stepper, wizard, steps
        <<"b","r","e","a","d","c","r","u","m","b">>,
        <<"s","t","e","p","p","e","r">>,
        <<"w","i","z","a","r","d">>,
        <<"s","t","e","p","s">>
      },
    accordion |-> {   \* accordion, collapsible, expandable, disclosure, details
        <<"a","c","c","o","r","d","i","o","n">>,
        <<"c","o","l","l","a","p","s","i","b","l","e">>,
        <<"e","x","p","a","n","d","a","b","l","e">>,
        <<"d","i","s","c","l","o","s","u","r","e">>,
        <<"d","e","t","a","i","l","s">>
      },
    carousel |-> {   \* carousel, slider, gallery, slideshow, swiper
        <<"c","a","r","o","u","s","e","l">>,
        <<"s","l","i","d","e","r">>,
        <<"g","a","l","l","e","r","y">>,
        <<"s","l","i","d","e","s","h","o","w">>,
        <<"s","w","i","p","e","r">>
      },
    avatar |-> {   \* avatar, profileimage, userpic
        <<"a","v","a","t","a","r">>,
        <<"p","r","o","f","i","l","e","i","m","a","g","e">>,
        <<"u","s","e","r","p","i","c">>
      },
    toggle |-> {   \* checkbox, switch, toggle, togglegroup, radio, radiogroup
        <<"c","h","e","c","k","b","o","x">>,
        <<"s","w","i","t","c","h">>,
        <<"t","o","g","g","l","e">>,
        <<"t","o","g","g","l","e","g","r","o","u","p">>,
        <<"r","a","d","i","o">>,
        <<"r","a","d","i","o","g","r","o","u","p">>
      },
    pagination |-> {   \* pagination, pager, paginator
        <<"p","a","g","i","n","a","t","i","o","n">>,
        <<"p","a","g","e","r">>,
        <<"p","a","g","i","n","a","t","o","r">>
      },
    emptystate |-> {   \* empty, emptystate, placeholder, nodata, zeroresult
        <<"e","m","p","t","y">>,
        <<"e","m","p","t","y","s","t","a","t","e">>,
        <<"p","l","a","c","e","h","o","l","d","e","r">>,
        <<"n","o","d","a","t","a">>,
        <<"z","e","r","o","r","e","s","u","l","t">>
      },
    error |-> {   \* error, errorboundary, errorpage, notfound, fallback
        <<"e","r","r","o","r">>,
        <<"e","r","r","o","r","b","o","u","n","d","a","r","y">>,
        <<"e","r","r","o","r","p","a","g","e">>,
        <<"n","o","t","f","o","u","n","d">>,
        <<"f","a","l","l","b","a","c","k">>
      },
    separator |-> {   \* separator, divider
        <<"s","e","p","a","r","a","t","o","r">>,
        <<"d","i","v","i","d","e","r">>
      },
    scroll |-> {   \* scroll, scrollarea, scrollbar
        <<"s","c","r","o","l","l">>,
        <<"s","c","r","o","l","l","a","r","e","a">>,
        <<"s","c","r","o","l","l","b","a","r">>
      },
    calendar |-> {   \* calendar, datepicker, datetimepicker, daterange
        <<"c","a","l","e","n","d","a","r">>,
        <<"d","a","t","e","p","i","c","k","e","r">>,
        <<"d","a","t","e","t","i","m","e","p","i","c","k","e","r">>,
        <<"d","a","t","e","r","a","n","g","e">>
      },
    image |-> {   \* image, imagegallery, imageupload, photo, thumbnail, picture, imageuploadwithnote
        <<"i","m","a","g","e">>,
        <<"i","m","a","g","e","g","a","l","l","e","r","y">>,
        <<"i","m","a","g","e","u","p","l","o","a","d">>,
        <<"p","h","o","t","o">>,
        <<"t","h","u","m","b","n","a","i","l">>,
        <<"p","i","c","t","u","r","e">>,
        <<"i","m","a","g","e","u","p","l","o","a","d","w","i","t","h","n","o","t","e">>
      },
    header |-> {   \* header, pageheader, sectionheader
        <<"h","e","a","d","e","r">>,
        <<"p","a","g","e","h","e","a","d","e","r">>,
        <<"s","e","c","t","i","o","n","h","e","a","d","e","r">>
      },
    chart |-> {   \* chart, graph, visualization, plot
        <<"c","h","a","r","t">>,
        <<"g","r","a","p","h">>,
        <<"v","i","s","u","a","l","i","z","a","t","i","o","n">>,
        <<"p","l","o","t">>
      },
    otp |-> {   \* otp, inputotp, pincode, verificationcode
        <<"o","t","p">>,
        <<"i","n","p","u","t","o","t","p">>,
        <<"p","i","n","c","o","d","e">>,
        <<"v","e","r","i","f","i","c","a","t","i","o","n","c","o","d","e">>
      },
    command |-> {   \* command, commandpalette, spotlight, commandmenu
        <<"c","o","m","m","a","n","d">>,
        <<"c","o","m","m","a","n","d","p","a","l","e","t","t","e">>,
        <<"s","p","o","t","l","i","g","h","t">>,
        <<"c","o","m","m","a","n","d","m","e","n","u">>
      },
    resizable |-> {   \* resizable, splitpane, splitter
        <<"r","e","s","i","z","a","b","l","e">>,
        <<"s","p","l","i","t","p","a","n","e">>,
        <<"s","p","l","i","t","t","e","r">>
      },
    contextmenu |-> {   \* contextmenu, rightclick, popupmenu
        <<"c","o","n","t","e","x","t","m","e","n","u">>,
        <<"r","i","g","h","t","c","l","i","c","k">>,
        <<"p","o","p","u","p","m","e","n","u">>
      },
    label |-> {   \* label, formlabel, fieldlabel
        <<"l","a","b","e","l">>,
        <<"f","o","r","m","l","a","b","e","l">>,
        <<"f","i","e","l","d","l","a","b","e","l">>
      },
    logo |-> {   \* logo, brandmark, logotype
        <<"l","o","g","o">>,
        <<"b","r","a","n","d","m","a","r","k">>,
        <<"l","o","g","o","t","y","p","e">>
      },
    savestatus |-> {   \* savestatus, autosave, autosaveindicator, savestatusindicator
        <<"s","a","v","e","s","t","a","t","u","s">>,
        <<"a","u","t","o","s","a","v","e">>,
        <<"a","u","t","o","s","a","v","e","i","n","d","i","c","a","t","o","r">>,
        <<"s","a","v","e","s","t","a","t","u","s","i","n","d","i","c","a","t","o","r">>
      } ]

(***************************************************************************)
(* String helpers.                                                         *)
(***************************************************************************)
Max(x, y) == IF x >= y THEN x ELSE y

Min(x, y) == IF x <= y THEN x ELSE y

SetMax(S) == CHOOSE x \in S : \A y \in S : y <= x

SetMin(S) == CHOOSE x \in S : \A y \in S : x <= y

\* Python `a in b` for strings
IsSubstr(a, b) == \E i \in 0..(Len(b) - Len(a)) : SubSeq(b, i + 1, i + Len(a)) = a

StartsWith(s, p) == Len(p) <= Len(s) /\ SubSeq(s, 1, Len(p)) = p

EndsWith(s, e) == Len(e) <= Len(s) /\ SubSeq(s, Len(s) - Len(e) + 1, Len(s)) = e

UpperChars ==
  <<"A","B","C","D","E","F","G","H","I","J","K","L","M","N","O","P","Q","R","S","T","U","V","W","X","Y","Z">>

LowerChars ==
  <<"a","b","c","d","e","f","g","h","i","j","k","l","m","n","o","p","q","r","s","t","u","v","w","x","y","z">>

LowerChar(c) ==
  IF \E i \in 1..Len(UpperChars) : UpperChars[i] = c
  THEN LowerChars[CHOOSE i \in 1..Len(UpperChars) : UpperChars[i] = c]
  ELSE c

(***************************************************************************)
(* normalize_name                                                          *)
(***************************************************************************)
\* the suffixes matched by \.(tsx?|jsx?|vue|svelte)$
Extensions ==
  { <<".","t","s">>, <<".","t","s","x">>, <<".","j","s">>, <<".","j","s","x">>,
    <<".","v","u","e">>, <<".","s","v","e","l","t","e">> }

\* re.sub(r"\.(tsx?|jsx?|vue|svelte)$", "", filename): case-sensitive
StripExtension(s) ==
  IF \E e \in Extensions : EndsWith(s, e)
  THEN LET e == CHOOSE x \in Extensions : EndsWith(s, x)
       IN  SubSeq(s, 1, Len(s) - Len(e))
  ELSE s

\* name.lower()
Lower(s) == [i \in 1..Len(s) |-> LowerChar(s[i])]

RECURSIVE StripPrefixAll(_)
\* mutant: leading prefixes are removed until none is left
StripPrefixAll(s) ==
  LET p == IF StartsWith(s, <<"u","s","e">>) THEN 3
           ELSE IF StartsWith(s, <<"w","i","t","h">>) THEN 4
           ELSE 0
      q == IF p > 0 /\ Len(s) > p /\ s[p + 1] \in {"-", "_"} THEN p + 1 ELSE p
  IN  IF p = 0 THEN s ELSE StripPrefixAll(SubSeq(s, q + 1, Len(s)))

\* re.sub(r"^(use[-_]?|with[-_]?)", "", name): one leading match is removed
StripPrefix(s) ==
  LET p == IF StartsWith(s, <<"u","s","e">>) THEN 3
           ELSE IF StartsWith(s, <<"w","i","t","h">>) THEN 4
           ELSE 0
      q == IF p > 0 /\ Len(s) > p /\ s[p + 1] \in {"-", "_"} THEN p + 1 ELSE p
  IN  SubSeq(s, q + 1, Len(s))

\* re.sub(r"[-_.]", "", name)
StripSeparators(s) == SelectSeq(s, LAMBDA c : c \notin {"-", "_", "."})

normalize_name(filename) ==
  StripSeparators(StripPrefix(Lower(StripExtension(filename))))

(***************************************************************************)
(* get_semantic_groups                                                     *)
(***************************************************************************)
\* mutant: only keywords contained in the key count
get_semantic_groups_one_way(normalized) ==
  { g \in DOMAIN SEMANTIC_GROUPS :
      \E kw \in SEMANTIC_GROUPS[g] : IsSubstr(kw, normalized) }

get_semantic_groups(normalized) ==
  { g \in DOMAIN SEMANTIC_GROUPS :
      \E kw \in SEMANTIC_GROUPS[g] : IsSubstr(kw, normalized) \/ IsSubstr(normalized, kw) }

(***************************************************************************)
(* fuzzy_score: difflib.SequenceMatcher(None, a, b).ratio()                *)
(***************************************************************************)
RECURSIVE RunLen(_, _, _, _)
\* length of the common run of a and b starting at a[i], b[j]
RunLen(a, b, i, j) ==
  IF i > Len(a) \/ j > Len(b) THEN 0
  ELSE IF a[i] # b[j] THEN 0
  ELSE 1 + RunLen(a, b, i + 1, j + 1)

\* find_longest_match: the longest common block <<i, j, k>>, of those the one
\* starting earliest in a, of those the one starting earliest in b
LongestMatch(a, b) ==
  LET P  == (1..Len(a)) \X (1..Len(b))
      k  == SetMax({RunLen(a, b, p[1], p[2]) : p \in P})
      i  == SetMin({p[1] : p \in {q \in P : RunLen(a, b, q[1], q[2]) = k}})
      j  == SetMin({p[2] : p \in {q \in P : q[1] = i /\ RunLen(a, b, q[1], q[2]) = k}})
  IN  <<i, j, k>>

RECURSIVE MatchCount(_, _)
\* get_matching_blocks: total size of the matching blocks, found by splitting
\* at the longest match and recursing to its left and right
MatchCount(a, b) ==
  IF Len(a) = 0 \/ Len(b) = 0 THEN 0
  ELSE LET m == LongestMatch(a, b)
       IN  IF m[3] = 0 THEN 0
           ELSE m[3]
                + MatchCount(SubSeq(a, 1, m[1] - 1), SubSeq(b, 1, m[2] - 1))
                + MatchCount(SubSeq(a, m[1] + m[3], Len(a)), SubSeq(b, m[2] + m[3], Len(b)))

\* mutant: matches / length, without the factor 2
fuzzy_score_half(a, b) ==
  IF Len(a) + Len(b) = 0 THEN 100 ELSE 100 * MatchCount(a, b)

\* denominator of the scores of the pair (a, b)
Den(a, b) == IF Len(a) + Len(b) = 0 THEN 1 ELSE Len(a) + Len(b)

\* ratio() = 2.0 * matches / length, 1.0 when length is 0; over 100 * Den(a, b)
fuzzy_score(a, b) ==
  IF Len(a) + Len(b) = 0 THEN 100 ELSE 200 * MatchCount(a, b)

(***************************************************************************)
(* find_similar: the steps of the loop body                                *)
(***************************************************************************)
\* mutant: the tags of the component alone
OverlapCompOnly(tg, cg) == cg

\* overlap = target_groups & comp_groups
Overlap(tg, cg) == tg \cap cg

\* mutant: the boost replaces the score instead of raising it
SemanticStepNoFloor(s, n, d) ==
  IF n > 0 THEN SemanticFloor * d + SemanticBoost * n * d ELSE s

\* mutant: the boost is added once, whatever the size of the overlap
SemanticStepFlatBoost(s, n, d) ==
  IF n > 0 THEN Max(s, SemanticFloor * d) + SemanticBoost * d ELSE s

\* if overlap: score = max(score, 0.60); score += 0.15 * len(overlap)
SemanticStep(s, n, d) ==
  IF n > 0 THEN Max(s, SemanticFloor * d) + SemanticBoost * n * d ELSE s

\* target_norm in comp["normalized"] or comp["normalized"] in target_norm
Contained(t, c) == IsSubstr(t, c) \/ IsSubstr(c, t)

\* mutant: the containment floor is assigned, not taken as a maximum
ContainStepAssign(s, c, d) == IF c THEN ContainFloor * d ELSE s

\* if <contained>: score = max(score, 0.70)
ContainStep(s, c, d) == IF c THEN Max(s, ContainFloor * d) ELSE s

\* mutant: the threshold is ignored
PassesAny(s, thr, d) == s >= 0

\* if score >= threshold
Passes(s, thr, d) == s >= thr * d

\* mutant: no clamp
ClampNone(s, d) == s

\* min(score, 1.0)
Clamp(s, d) == Min(s, 100 * d)

\* round(x, 2): the nearest hundredth of s / (100 * d), an exact tie going to
\* the even hundredth
Round2(s, d) ==
  LET q == s \div d
      r == s % d
  IN  IF 2 * r < d THEN q
      ELSE IF 2 * r > d THEN q + 1
      ELSE IF q % 2 = 0 THEN q ELSE q + 1

\* the dict appended to scored; groups stands for the sorted list of overlap
Entry(comp, s, d, ov) ==
  [name   |-> comp.name,
   path   |-> comp.rel_path,
   score  |-> Round2(Clamp(s, d), d),
   groups |-> ov]

\* mutant: e goes in front of the entries with an equal score
InsertByScoreFront(e, s) ==
  LET p == Cardinality({i \in 1..Len(s) : s[i].score > e.score})
  IN  SubSeq(s, 1, p) \o <<e>> \o SubSeq(s, p + 1, Len(s))

\* place e behind every entry of the descending sequence s whose score is not
\* lower than e's
InsertByScore(e, s) ==
  LET p == Cardinality({i \in 1..Len(s) : s[i].score >= e.score})
  IN  SubSeq(s, 1, p) \o <<e>> \o SubSeq(s, p + 1, Len(s))

RECURSIVE SortByScore(_)
\* scored.sort(key=lambda m: m["score"], reverse=True): stable
SortByScore(s) ==
  IF s = <<>> THEN <<>>
  ELSE InsertByScore(s[Len(s)], SortByScore(SubSeq(s, 1, Len(s) - 1)))

\* mutant: the last five entries
TruncateTail(s) == SubSeq(s, Len(s) - Min(Len(s), TopK) + 1, Len(s))

\* mutant: one entry short
TruncateShort(s) == SubSeq(s, 1, Min(Len(s), TopK - 1))

\* scored[:5]
Truncate(s) == SubSeq(s, 1, Min(Len(s), TopK))

(***************************************************************************)
(* collect_components: the inventory                                       *)
(***************************************************************************)
\* the dict of one component file; the i-th file of the walk has its own
\* relative path, which i stands for
Component(fname, i) ==
  [name |-> fname, rel_path |-> i, normalized |-> normalize_name(fname)]

\* the inventories of lo..hi files with names from the given set
Inventories(names, lo, hi) ==
  UNION { { [i \in 1..n |-> Component(f[i], i)] : f \in [1..n -> names] } : n \in lo..hi }

(***************************************************************************)
(* State                                                                   *)
(***************************************************************************)
VARIABLES
  pc,             \* "start", "loop", "done": position in find_similar
  target,         \* argument: raw name
  existing,       \* argument: sequence of component dicts
  threshold,      \* argument, in hundredths
  target_norm,    \* local
  target_groups,  \* local
  idx,            \* number of components the loop has processed
  base,           \* score of the last processed component after fuzzy_score
  tax,            \* ... after the semantic-group boost
  score,          \* ... after the containment boost
  den,            \* denominator of base, tax and score
  overlap,        \* overlap of the last processed component
  scored,         \* local
  result,         \* returned list
  \* the component-check hook (main)
  h_pc,           \* "parse", "filter", "search", "exited"; "off" when not run
  h_stdin,        \* what is read from stdin
  h_tree,         \* the files under src/components, in walk order
  h_exists,       \* os.path.exists(abs_path)
  h_file_path,    \* local file_path
  h_existing,     \* local existing
  h_matches,      \* local matches
  h_out,          \* the responses printed to stdout
  h_exit,         \* exit code; -1 while running
  \* the architecture-guard hook (main)
  ag_pc,          \* "parse", "loop", "exited"; "off" when not run
  ag_stdin,       \* what is read from stdin
  ag_fs,          \* the source of every file the hook may read
  ag_files,       \* local modified_files
  ag_idx,         \* number of modified files the loop has processed
  ag_violations,  \* local violations
  ag_warnings,    \* local warnings
  ag_out,         \* the responses printed to stdout
  ag_exit,        \* exit code; -1 while running
  \* the secret-guardian hook (main)
  sg_pc,          \* "parse", "collect", "respond", "exited"; "off" when not run
  sg_stdin,       \* what is read from stdin
  sg_text,        \* local text_to_scan
  sg_out,         \* the responses printed to stdout
  sg_exit,        \* exit code; -1 while running
  \* the INSERT scan of lint_file
  li_pc,          \* "start", "scan", "done"; "off" when not run
  li_lines,       \* local lines
  li_i,           \* number of lines the loop has processed
  in_insert_block,\* local
  paren_depth,    \* local
  li_warnings,    \* the warnings the scan has appended
  \* scaffold (main)
  sc_pc,          \* "args", "locate", "mkdir", "write", "exited"; "off" when not run
  sc_argv,        \* sys.argv[1:]
  sc_env,         \* what the run finds: the repo root, the template, the disk
  sc_fs,          \* the entries of supabase/functions
  sc_fs0,         \* the entries of supabase/functions when the run began
  sc_exit         \* exit code; -1 while running

\* the variables of find_similar
fsVars == <<pc, target, existing, threshold, target_norm, target_groups, idx,
            base, tax, score, den, overlap, scored, result>>

\* the variables of the component-check hook
hookVars == <<h_pc, h_stdin, h_tree, h_exists, h_file_path, h_existing,
              h_matches, h_out, h_exit>>

\* the variables of the architecture-guard hook
agVars == <<ag_pc, ag_stdin, ag_fs, ag_files, ag_idx, ag_violations,
            ag_warnings, ag_out, ag_exit>>

\* the variables of the secret-guardian hook
sgVars == <<sg_pc, sg_stdin, sg_text, sg_out, sg_exit>>

\* the variables of the INSERT scan of lint_file
lintVars == <<li_pc, li_lines, li_i, in_insert_block, paren_depth, li_warnings>>

\* the variables of scaffold
scaffoldVars == <<sc_pc, sc_argv, sc_env, sc_fs, sc_fs0, sc_exit>>

vars == <<fsVars, hookVars, agVars, sgVars, lintVars, scaffoldVars>>

\* the variables of everything but the component-check hook
notHookVars == <<fsVars, agVars, sgVars, lintVars, scaffoldVars>>

\* the variables of everything but the architecture-guard hook
notGuardVars == <<fsVars, hookVars, sgVars, lintVars, scaffoldVars>>

\* the variables of everything but the secret-guardian hook
notGuardianVars == <<fsVars, hookVars, agVars, lintVars, scaffoldVars>>

\* the variables of everything but the INSERT scan of lint_file
notLintVars == <<fsVars, hookVars, agVars, sgVars, scaffoldVars>>

\* the variables of everything but scaffold
notScaffoldVars == <<fsVars, hookVars, agVars, sgVars, lintVars>>

\* lint_file is not run
LintOff ==
  /\ li_pc = "off"
  /\ li_lines = <<>>
  /\ li_i = 0
  /\ in_insert_block = FALSE
  /\ paren_depth = 0
  /\ li_warnings = <<>>

\* scaffold is not run
ScaffoldOff ==
  /\ sc_pc = "off"
  /\ sc_argv = <<>>
  /\ sc_env = [root |-> FALSE, template |-> <<>>, has_template |-> FALSE, disk_ok |-> FALSE]
  /\ sc_fs = {}
  /\ sc_fs0 = {}
  /\ sc_exit = -1

\* the secret-guardian hook is not run
GuardianOff ==
  /\ sg_pc = "off"
  /\ sg_stdin = [kind |-> "none", raw |-> <<>>, fields |-> <<>>]
  /\ sg_text = <<>>
  /\ sg_out = <<>>
  /\ sg_exit = -1

\* the architecture-guard hook is not run
GuardOff ==
  /\ ag_pc = "off"
  /\ ag_stdin = [kind |-> "none", path |-> <<>>, files |-> <<>>]
  /\ ag_fs = <<>>
  /\ ag_files = <<>>
  /\ ag_idx = 0
  /\ ag_violations = <<>>
  /\ ag_warnings = <<>>
  /\ ag_out = <<>>
  /\ ag_exit = -1

\* the component-check hook is not run
HookOff ==
  /\ h_pc = "off"
  /\ h_stdin = [kind |-> "none", path |-> <<>>]
  /\ h_tree = <<>>
  /\ h_exists = FALSE
  /\ h_file_path = <<>>
  /\ h_existing = <<>>
  /\ h_matches = <<>>
  /\ h_out = <<>>
  /\ h_exit = -1

\* everything but find_similar is not run
OthersOff == HookOff /\ GuardOff /\ GuardianOff /\ LintOff /\ ScaffoldOff

\* the variables of everything but find_similar
otherVars == <<hookVars, agVars, sgVars, lintVars, scaffoldVars>>

Init ==
  /\ pc = "start"
  /\ \/ /\ target \in TargetNames
        /\ existing \in Inventories(FileNames, 0, MaxInv)
        /\ threshold \in Thresholds
     \/ /\ target \in LongTargetNames
        /\ existing \in Inventories(LongFileNames, TopK, MaxLong)
        /\ threshold = FUZZY_THRESHOLD
  /\ target_norm = <<>>
  /\ target_groups = {}
  /\ idx = 0
  /\ base = 0
  /\ tax = 0
  /\ score = 0
  /\ den = 1
  /\ overlap = {}
  /\ scored = <<>>
  /\ result = <<>>
  /\ OthersOff

\* lines 206-209
Start ==
  /\ pc = "start"
  /\ pc' = "loop"
  /\ target_norm' = normalize_name(target)
  /\ target_groups' = get_semantic_groups(normalize_name(target))
  /\ scored' = <<>>
  /\ UNCHANGED <<target, existing, threshold, idx, base, tax, score, den, overlap, result>>
  /\ UNCHANGED otherVars

\* one iteration of `for comp in existing`, lines 210-232
ScoreComponent ==
  /\ pc = "loop"
  /\ idx < Len(existing)
  /\ LET comp == existing[idx + 1]
         d    == Den(target_norm, comp.normalized)
         s0   == fuzzy_score(target_norm, comp.normalized)
         ov   == Overlap(target_groups, get_semantic_groups(comp.normalized))
         s1   == SemanticStep(s0, Cardinality(ov), d)
         s2   == ContainStep(s1, Contained(target_norm, comp.normalized), d)
     IN  /\ den' = d
         /\ base' = s0
         /\ overlap' = ov
         /\ tax' = s1
         /\ score' = s2
         /\ scored' = IF Passes(s2, threshold, d)
                      THEN Append(scored, Entry(comp, s2, d, ov))
                      ELSE scored
  /\ idx' = idx + 1
  /\ UNCHANGED <<pc, target, existing, threshold, target_norm, target_groups, result>>
  /\ UNCHANGED otherVars

\* lines 234-235
SortAndReturn ==
  /\ pc = "loop"
  /\ idx = Len(existing)
  /\ pc' = "done"
  /\ result' = Truncate(SortByScore(scored))
  /\ UNCHANGED <<target, existing, threshold, target_norm, target_groups, idx,
                 base, tax, score, den, overlap, scored>>
  /\ UNCHANGED otherVars

Next == Start \/ ScoreComponent \/ SortAndReturn

Spec == Init /\ [][Next]_vars

(***************************************************************************)
(* Normalization runs: find_similar on names put together from NameTokens, *)
(* against a one-file inventory.                                           *)
(***************************************************************************)
RECURSIVE Flatten(_)
Flatten(ss) == IF ss = <<>> THEN <<>> ELSE ss[1] \o Flatten(Tail(ss))

TokenNames ==
  { Flatten(f) : f \in UNION { [1..k -> NameTokens] : k \in 0..MaxParts } }

NormInventory == <<Component(<<"D","i","a","l","o","g",".","t","s","x">>, 1)>>

InitNorm ==
  /\ pc = "start"
  /\ target \in TokenNames \cup TargetNames
  /\ existing = NormInventory
  /\ threshold = FUZZY_THRESHOLD
  /\ target_norm = <<>>
  /\ target_groups = {}
  /\ idx = 0
  /\ base = 0
  /\ tax = 0
  /\ score = 0
  /\ den = 1
  /\ overlap = {}
  /\ scored = <<>>
  /\ result = <<>>
  /\ OthersOff

SpecNorm == InitNorm /\ [][Next]_vars

(***************************************************************************)
(* find_similar as one function, for its callers                           *)
(***************************************************************************)
\* the score of comp after the two boosts, over 100 * Den
CompScore(tn, tg, comp) ==
  LET d  == Den(tn, comp.normalized)
      ov == Overlap(tg, get_semantic_groups(comp.normalized))
  IN  ContainStep(SemanticStep(fuzzy_score(tn, comp.normalized), Cardinality(ov), d),
                  Contained(tn, comp.normalized), d)

RECURSIVE ScoredOf(_, _, _, _, _)
\* scored after the loop has processed the first n components
ScoredOf(tn, tg, ex, thr, n) ==
  IF n = 0 THEN <<>>
  ELSE LET comp == ex[n]
           d    == Den(tn, comp.normalized)
           s    == CompScore(tn, tg, comp)
           ov   == Overlap(tg, get_semantic_groups(comp.normalized))
           prev == ScoredOf(tn, tg, ex, thr, n - 1)
       IN  IF Passes(s, thr, d) THEN Append(prev, Entry(comp, s, d, ov)) ELSE prev

find_similar(t, ex, thr) ==
  LET tn == normalize_name(t)
      tg == get_semantic_groups(tn)
  IN  Truncate(SortByScore(ScoredOf(tn, tg, ex, thr, Len(ex))))

(***************************************************************************)
(* collect_components                                                      *)
(***************************************************************************)
\* directories os.walk does not descend into
SkipDirs == {"__tests__", "node_modules", ".git", "dist", "build"}

\* the suffixes matched by \.(tsx?|jsx?)$
SourceExtensions ==
  { <<".","t","s">>, <<".","t","s","x">>, <<".","j","s">>, <<".","j","s","x">> }

\* re.search(r"\.(tsx?|jsx?)$", fname)
IsSourceFile(fname) == \E e \in SourceExtensions : EndsWith(fname, e)

\* re.search(r"\.(test|spec)\.", fname)
IsTestOrSpec(fname) ==
  \/ IsSubstr(<<".","t","e","s","t",".">>, fname)
  \/ IsSubstr(<<".","s","p","e","c",".">>, fname)

\* the walk reaches the file: none of its directories is pruned
Walked(f) == \A k \in 1..Len(f.dirs) : f.dirs[k] \notin SkipDirs

\* the file gets a component dict
Collected(f) == Walked(f) /\ IsSourceFile(f.fname) /\ ~IsTestOrSpec(f.fname)

\* a tree of this value stands for a missing src/components directory
NoDir == <<[dirs |-> <<>>, fname |-> <<>>]>>

RECURSIVE CollectFrom(_, _)
\* the components of the first n files of the walk
CollectFrom(tree, n) ==
  IF n = 0 THEN <<>>
  ELSE IF Collected(tree[n])
       THEN Append(CollectFrom(tree, n - 1), Component(tree[n].fname, n))
       ELSE CollectFrom(tree, n - 1)

collect_components(tree) ==
  IF tree = NoDir THEN <<>> ELSE CollectFrom(tree, Len(tree))

(***************************************************************************)
(* The component-check hook: main                                          *)
(***************************************************************************)
\* file_path.replace("\\", "/")
ReplaceBackslash(s) == [i \in 1..Len(s) |-> IF s[i] = "\\" THEN "/" ELSE s[i]]

\* os.path.basename
Basename(s) ==
  LET cuts == {i \in 1..Len(s) : s[i] = "/"}
  IN  IF cuts = {} THEN s ELSE SubSeq(s, SetMax(cuts) + 1, Len(s))

\* "src/components/" in file_path
InComponents(s) ==
  IsSubstr(<<"s","r","c","/","c","o","m","p","o","n","e","n","t","s","/">>, s)

IndexNames ==
  { <<"i","n","d","e","x",".","t","s">>, <<"i","n","d","e","x",".","t","s","x">>,
    <<"i","n","d","e","x",".","j","s">>, <<"i","n","d","e","x",".","j","s","x">> }

\* print(json.dumps({"continue": True})): the response, by its keys
AllowResponse == [continue |-> TRUE, keys |-> {"continue"}]

\* the response of lines 299-314
WarnResponse ==
  [continue |-> TRUE, keys |-> {"continue", "user_message", "agent_message"}]

\* the directories and base names of the paths given to the hook
PathDirs ==
  { <<"s","r","c","/","c","o","m","p","o","n","e","n","t","s","/","u","i","/">>,
    <<"s","r","c","\\","c","o","m","p","o","n","e","n","t","s","\\">>,
    <<"s","r","c","/","h","o","o","k","s","/">>,
    <<"/","r","e","p","o","/","s","r","c","/","c","o","m","p","o","n","e","n","t","s","/">> }

PathBases ==
  { <<"M","o","d","a","l",".","t","s","x">>,
    <<"i","n","d","e","x",".","t","s">>,
    <<"M","o","d","a","l",".","t","e","s","t",".","t","s","x">>,
    <<"W","i","d","g","e","t","4","2",".","t","s","x">> }

\* stdin: unparseable text, JSON that is not an object, an object without
\* "path", an object whose "path" is not a string, an object with a path
StdinInputs ==
  { [kind |-> k, path |-> <<>>] : k \in {"invalid", "nonobject", "nopath", "badpath"} }
    \cup { [kind |-> "path", path |-> d \o b] : d \in PathDirs, b \in PathBases }

\* the files a tree is drawn from
TreeFiles ==
  { [dirs |-> <<>>,            fname |-> <<"i","n","d","e","x",".","t","s">>],
    [dirs |-> <<>>,            fname |-> <<"R","E","A","D","M","E",".","m","d">>],
    [dirs |-> <<"ui">>,        fname |-> <<"D","i","a","l","o","g",".","t","s","x">>],
    [dirs |-> <<"ui">>,        fname |-> <<"D","i","a","l","o","g",".","t","e","s","t",".","t","s","x">>],
    [dirs |-> <<"ui">>,        fname |-> <<"B","u","t","t","o","n",".","t","s","x">>],
    [dirs |-> <<"__tests__">>, fname |-> <<"B","u","t","t","o","n",".","t","s","x">>] }

\* os.walk lists every file once, the files of the top directory first and
\* the files of one directory together
ValidWalk(t) ==
  /\ \A i, j \in 1..Len(t) : i < j => t[i] # t[j]
  /\ \A i, j \in 1..Len(t) : (i < j /\ t[j].dirs = <<>>) => t[i].dirs = <<>>
  /\ \A i, j, k \in 1..Len(t) : (i < j /\ j < k /\ t[i].dirs = t[k].dirs) => t[j].dirs = t[i].dirs

Trees ==
  {NoDir} \cup { t \in UNION { [1..n -> TreeFiles] : n \in 0..MaxTree } : ValidWalk(t) }

\* find_similar is not run on its own
FindSimilarOff ==
  /\ pc = "off"
  /\ target = <<>>
  /\ existing = <<>>
  /\ threshold = FUZZY_THRESHOLD
  /\ target_norm = <<>>
  /\ target_groups = {}
  /\ idx = 0
  /\ base = 0
  /\ tax = 0
  /\ score = 0
  /\ den = 1
  /\ overlap = {}
  /\ scored = <<>>
  /\ result = <<>>

InitHook ==
  /\ FindSimilarOff
  /\ GuardOff
  /\ GuardianOff
  /\ LintOff
  /\ ScaffoldOff
  /\ h_pc = "parse"
  /\ h_stdin \in StdinInputs
  /\ h_tree \in Trees
  /\ h_exists \in BOOLEAN
  /\ h_file_path = <<>>
  /\ h_existing = <<>>
  /\ h_matches = <<>>
  /\ h_out = <<>>
  /\ h_exit = -1

\* lines 244-252: json.loads, data.get("path", ""), file_path.replace; an
\* exception other than JSONDecodeError and KeyError ends the process with
\* a traceback and exit code 1
HookParse ==
  /\ h_pc = "parse"
  /\ \/ /\ h_stdin.kind = "invalid"
        /\ h_out' = Append(h_out, AllowResponse)
        /\ h_exit' = 0
        /\ h_pc' = "exited"
        /\ UNCHANGED h_file_path
     \/ /\ h_stdin.kind \in {"nonobject", "badpath"}
        /\ h_exit' = 1
        /\ h_pc' = "exited"
        /\ UNCHANGED <<h_out, h_file_path>>
     \/ /\ h_stdin.kind \in {"nopath", "path"}
        /\ h_file_path' = ReplaceBackslash(h_stdin.path)
        /\ h_pc' = "filter"
        /\ UNCHANGED <<h_out, h_exit>>
  /\ UNCHANGED <<h_stdin, h_tree, h_exists, h_existing, h_matches>>
  /\ UNCHANGED notHookVars

\* lines 255-281
HookFilter ==
  /\ h_pc = "filter"
  /\ IF \/ ~InComponents(h_file_path)
        \/ h_exists
        \/ Basename(h_file_path) \in IndexNames
        \/ IsTestOrSpec(Basename(h_file_path))
     THEN /\ h_out' = Append(h_out, AllowResponse)
          /\ h_exit' = 0
          /\ h_pc' = "exited"
     ELSE /\ h_pc' = "search"
          /\ UNCHANGED <<h_out, h_exit>>
  /\ UNCHANGED <<h_stdin, h_tree, h_exists, h_file_path, h_existing, h_matches>>
  /\ UNCHANGED notHookVars

\* lines 284-316
HookSearch ==
  /\ h_pc = "search"
  /\ LET ex == collect_components(h_tree)
         ms == find_similar(Basename(h_file_path), ex, FUZZY_THRESHOLD)
     IN  /\ h_existing' = ex
         /\ h_matches' = ms
         /\ h_out' = Append(h_out, IF ms = <<>> THEN AllowResponse ELSE WarnResponse)
  /\ h_exit' = 0
  /\ h_pc' = "exited"
  /\ UNCHANGED <<h_stdin, h_tree, h_exists, h_file_path>>
  /\ UNCHANGED notHookVars

NextHook == HookParse \/ HookFilter \/ HookSearch

SpecHook == InitHook /\ [][NextHook]_vars

(***************************************************************************)
(* The architecture-guard hook                                             *)
(***************************************************************************)
\* p.replace("\\", "/")
normalize_path(p) == ReplaceBackslash(p)

\* the specifiers found by IMPORT_RE, then DYNAMIC_IMPORT_RE, then REQUIRE_RE;
\* a source is the sequence of its import statements
parse_imports(source) ==
  LET Of(k) == SelectSeq(source, LAMBDA st : st.kind = k)
      all   == Of("static") \o Of("dynamic") \o Of("require")
  IN  [i \in 1..Len(all) |-> all[i].spec]

\* the text of s from position i up to the next "/"
SegmentAt(s, i) ==
  LET stops == {j \in i..Len(s) : s[j] = "/"}
  IN  IF stops = {} THEN SubSeq(s, i, Len(s)) ELSE SubSeq(s, i, SetMin(stops) - 1)

\* the positions at which m occurs in s
Occurrences(m, s) == {i \in 1..(Len(s) - Len(m) + 1) : SubSeq(s, i, i + Len(m) - 1) = m}

FeaturesDir == <<"s","r","c","/","f","e","a","t","u","r","e","s","/">>

FeaturesAlias == <<"@","/","f","e","a","t","u","r","e","s">>

\* re.search(r"src/features/([^/]+)", file_path): <<>> stands for None
extract_feature_name(file_path) ==
  LET hits == {i \in Occurrences(FeaturesDir, file_path) :
                 SegmentAt(file_path, i + Len(FeaturesDir)) # <<>>}
  IN  IF hits = {} THEN <<>>
      ELSE SegmentAt(file_path, SetMin(hits) + Len(FeaturesDir))

\* "/types" in normalize_path(specifier)
is_shared_type_import(specifier) ==
  IsSubstr(<<"/","t","y","p","e","s">>, normalize_path(specifier))

\* the absent result of a rule check
NoFinding == [rule |-> "none"]

\* lines 91-108
check_ui_purity(file_path, imports) ==
  LET violating == SelectSeq(imports,
                     LAMBDA sp : StartsWith(normalize_path(sp), FeaturesAlias)
                                   \/ StartsWith(normalize_path(sp), FeaturesAlias \o <<"/">>))
  IN  IF violating = <<>> THEN NoFinding
      ELSE [rule |-> "UI Purity", file |-> file_path, violating_imports |-> violating]

\* lines 122-128: the feature an import specifier points into, <<>> for None
OtherFeature(norm) ==
  IF StartsWith(norm, FeaturesAlias \o <<"/">>)
  THEN SegmentAt(norm, Len(FeaturesAlias) + 2)
  ELSE IF IsSubstr(FeaturesDir, norm)
  THEN LET first == SetMin(Occurrences(FeaturesDir, norm))
           rest  == SubSeq(norm, first + Len(FeaturesDir), Len(norm))
           more  == Occurrences(FeaturesDir, rest)
           part  == IF more = {} THEN rest ELSE SubSeq(rest, 1, SetMin(more) - 1)
       IN  SegmentAt(part, 1)
  ELSE <<>>

\* lines 113-153
check_feature_isolation(file_path, imports) ==
  LET own   == extract_feature_name(file_path)
      cross == SelectSeq(imports,
                 LAMBDA sp : /\ OtherFeature(normalize_path(sp)) # <<>>
                             /\ OtherFeature(normalize_path(sp)) # own
                             /\ ~is_shared_type_import(sp))
  IN  IF own = <<>> \/ cross = <<>> THEN NoFinding
      ELSE [rule |-> "Feature Isolation", file |-> file_path, own_feature |-> own,
            cross_imports |-> [i \in 1..Len(cross) |->
                                 [import |-> cross[i],
                                  target_feature |-> OtherFeature(normalize_path(cross[i]))]]]

\* lines 184-198: data.path when it is a non-empty string (<<>> otherwise),
\* then the non-empty strings of data.files
get_modified_files(data) ==
  (IF data.path # <<>> THEN <<data.path>> ELSE <<>>)
    \o SelectSeq(data.files, LAMBDA f : f # <<>>)

\* re.search(r"\.(tsx?|jsx?)$", norm_path)
IsCheckedExtension(norm_path) == \E e \in SourceExtensions : EndsWith(norm_path, e)

\* "src/components/ui/" in norm_path
IsUiFile(norm_path) ==
  IsSubstr(<<"s","r","c","/","c","o","m","p","o","n","e","n","t","s","/","u","i","/">>, norm_path)

\* "src/features/" in norm_path
IsFeatureFile(norm_path) == IsSubstr(FeaturesDir, norm_path)

\* read_file_source returned None
Unreadable == <<[kind |-> "none", spec |-> <<>>]>>

\* the response of lines 268-272
BlockResponse ==
  [continue |-> FALSE, keys |-> {"continue", "user_message", "agent_message"}]

\* the paths of the modified files
GuardPaths ==
  { <<"s","r","c","/","c","o","m","p","o","n","e","n","t","s","/","u","i","/","b","u","t","t","o","n",".","t","s","x">>,
    <<"s","r","c","\\","f","e","a","t","u","r","e","s","\\","e","q","u","i","p","m","e","n","t","\\","L","i","s","t",".","t","s","x">>,
    <<"s","r","c","/","c","o","m","p","o","n","e","n","t","s","/","u","i","/","n","o","t","e","s",".","m","d">>,
    <<"s","r","c","/","h","o","o","k","s","/","u","s","e","X",".","t","s">> }

\* the import statements sources are made of:
\*   import React from 'react'
\*   import { useWorkOrders } from '@/features/work-orders/hooks'
\*   await import('@/features/work-orders/types')
\*   require('@/features-legacy/api')
ImportStatements ==
  { [kind |-> "static",  spec |-> <<"r","e","a","c","t">>],
    [kind |-> "static",  spec |-> <<"@","/","f","e","a","t","u","r","e","s","/","w","o","r","k","-","o","r","d","e","r","s","/","h","o","o","k","s">>],
    [kind |-> "dynamic", spec |-> <<"@","/","f","e","a","t","u","r","e","s","/","w","o","r","k","-","o","r","d","e","r","s","/","t","y","p","e","s">>],
    [kind |-> "require", spec |-> <<"@","/","f","e","a","t","u","r","e","s","-","l","e","g","a","c","y","/","a","p","i">>] }

Sources ==
  {Unreadable} \cup UNION { [1..n -> ImportStatements] : n \in 0..MaxImports }

\* the paths whose file the hook can come to read
ReadPaths ==
  { p \in GuardPaths :
      /\ IsCheckedExtension(normalize_path(p))
      /\ IsUiFile(normalize_path(p)) \/ IsFeatureFile(normalize_path(p)) }

\* stdin: unparseable text, blank text, JSON that is not an object, or an
\* object with its "path" (<<>> when missing or not a non-empty string) and
\* the strings of its "files"
GuardInputs ==
  { [kind |-> k, path |-> <<>>, files |-> <<>>] : k \in {"invalid", "blank", "nonobject"} }
    \cup { d \in [kind : {"object"},
                  path : GuardPaths \cup {<<>>},
                  files : UNION { [1..n -> GuardPaths] : n \in 0..MaxFiles }] :
             Len(get_modified_files(d)) <= MaxFiles }

InitGuard ==
  /\ FindSimilarOff
  /\ HookOff
  /\ GuardianOff
  /\ LintOff
  /\ ScaffoldOff
  /\ ag_pc = "parse"
  /\ ag_stdin \in GuardInputs
  /\ ag_fs \in [ReadPaths -> Sources]
  /\ ag_files = <<>>
  /\ ag_idx = 0
  /\ ag_violations = <<>>
  /\ ag_warnings = <<>>
  /\ ag_out = <<>>
  /\ ag_exit = -1

\* lines 207-226; data.get on JSON that is not an object raises
\* AttributeError, which ends the process with a traceback and exit code 1
GuardParse ==
  /\ ag_pc = "parse"
  /\ \/ /\ ag_stdin.kind = "invalid"
        /\ ag_out' = Append(ag_out, AllowResponse)
        /\ ag_exit' = 0
        /\ ag_pc' = "exited"
        /\ UNCHANGED ag_files
     \/ /\ ag_stdin.kind = "nonobject"
        /\ ag_exit' = 1
        /\ ag_pc' = "exited"
        /\ UNCHANGED <<ag_out, ag_files>>
     \/ /\ ag_stdin.kind \in {"blank", "object"}
        /\ get_modified_files(ag_stdin) = <<>>
        /\ ag_out' = Append(ag_out, AllowResponse)
        /\ ag_exit' = 0
        /\ ag_pc' = "exited"
        /\ UNCHANGED ag_files
     \/ /\ ag_stdin.kind = "object"
        /\ get_modified_files(ag_stdin) # <<>>
        /\ ag_files' = get_modified_files(ag_stdin)
        /\ ag_pc' = "loop"
        /\ UNCHANGED <<ag_out, ag_exit>>
  /\ UNCHANGED <<ag_stdin, ag_fs, ag_idx, ag_violations, ag_warnings>>
  /\ UNCHANGED notGuardVars

\* one iteration of `for file_path in modified_files`, lines 228-257
GuardCheckFile ==
  /\ ag_pc = "loop"
  /\ ag_idx < Len(ag_files)
  /\ LET file_path == ag_files[ag_idx + 1]
         norm_path == normalize_path(file_path)
         checked   == /\ IsCheckedExtension(norm_path)
                      /\ IsUiFile(norm_path) \/ IsFeatureFile(norm_path)
         source    == IF checked THEN ag_fs[file_path] ELSE Unreadable
         imports   == parse_imports(source)
         ui        == check_ui_purity(norm_path, imports)
         iso       == check_feature_isolation(norm_path, imports)
     IN  IF ~checked \/ source = Unreadable
         THEN UNCHANGED <<ag_violations, ag_warnings>>
         ELSE /\ ag_violations' = IF IsUiFile(norm_path) /\ ui # NoFinding
                                  THEN Append(ag_violations, ui) ELSE ag_violations
              /\ ag_warnings' = IF IsFeatureFile(norm_path) /\ iso # NoFinding
                                THEN Append(ag_warnings, iso) ELSE ag_warnings
  /\ ag_idx' = ag_idx + 1
  /\ UNCHANGED <<ag_pc, ag_stdin, ag_fs, ag_files, ag_out, ag_exit>>
  /\ UNCHANGED notGuardVars

\* lines 262-292
GuardRespond ==
  /\ ag_pc = "loop"
  /\ ag_idx = Len(ag_files)
  /\ ag_out' = Append(ag_out, IF ag_violations # <<>> THEN BlockResponse
                              ELSE IF ag_warnings # <<>> THEN WarnResponse
                              ELSE AllowResponse)
  /\ ag_exit' = 0
  /\ ag_pc' = "exited"
  /\ UNCHANGED <<ag_stdin, ag_fs, ag_files, ag_idx, ag_violations, ag_warnings>>
  /\ UNCHANGED notGuardVars

NextGuard == GuardParse \/ GuardCheckFile \/ GuardRespond

SpecGuard == InitGuard /\ [][NextGuard]_vars

(***************************************************************************)
(* The secret-guardian hook                                                *)
(***************************************************************************)
\* the quantifier bounds of SECRET_PATTERNS
StripeMinLen == 10

JwtPayloadMinLen == 100

JwtSignatureMinLen == 20

QboMinLen == 20

RefreshMinLen == 30

Digits == <<"0","1","2","3","4","5","6","7","8","9">>

\* [0-9a-zA-Z]
AlnumChars ==
  {UpperChars[i] : i \in 1..26} \cup {LowerChars[i] : i \in 1..26} \cup {Digits[i] : i \in 1..10}

\* [A-Za-z0-9_\-]
TokenChars == AlnumChars \cup {"_", "-"}

\* \s
WhiteChars == {" ", "\t", "\n", "\r", "\f"}

\* c repeated n times
Rep(c, n) == [i \in 1..n |-> c]

\* p stands in s at position i
HasAt(s, i, p) == i + Len(p) - 1 <= Len(s) /\ SubSeq(s, i, i + Len(p) - 1) = p

\* the length of the longest run of characters of C in s from position i on
CharRun(s, i, C) ==
  LET stops == {j \in i..Len(s) : s[j] \notin C}
  IN  IF stops = {} THEN Len(s) - i + 1 ELSE SetMin(stops) - i

\* sk_(live|test)_[0-9a-zA-Z]{10,} matches at position i
StripeAt(s, i) ==
  /\ \/ HasAt(s, i, <<"s","k","_","l","i","v","e","_">>)
     \/ HasAt(s, i, <<"s","k","_","t","e","s","t","_">>)
  /\ CharRun(s, i + 8, AlnumChars) >= StripeMinLen

JwtHeader ==
  <<"e","y","J","h","b","G","c","i","O","i","J","I","U","z","I","1","N","i","I","s","I","n","R","5","c","C","I","6","I","k","p","X","V","C","J","9">>

\* header \.[A-Za-z0-9_\-]{100,} \.[A-Za-z0-9_\-]{20,} matches at position i
JwtAt(s, i) ==
  LET a == i + Len(JwtHeader)
      p == CharRun(s, a + 1, TokenChars)
  IN  /\ HasAt(s, i, JwtHeader \o <<".">>)
      /\ p >= JwtPayloadMinLen
      /\ HasAt(s, a + 1 + p, <<".">>)
      /\ CharRun(s, a + 2 + p, TokenChars) >= JwtSignatureMinLen

\* AB11[A-Za-z0-9]{20,} | refresh_token\s*[=:]\s*["']?[A-Za-z0-9_\-]{30,}
\* matches at position i
QboAt(s, i) ==
  \/ /\ HasAt(s, i, <<"A","B","1","1">>)
     /\ CharRun(s, i + 4, AlnumChars) >= QboMinLen
  \/ /\ HasAt(s, i, <<"r","e","f","r","e","s","h","_","t","o","k","e","n">>)
     /\ LET e == i + 13 + CharRun(s, i + 13, WhiteChars)
            q == e + 1 + CharRun(s, e + 1, WhiteChars)
            v == IF HasAt(s, q, <<"\"">>) \/ HasAt(s, q, <<"'">>) THEN q + 1 ELSE q
        IN  /\ HasAt(s, e, <<"=">>) \/ HasAt(s, e, <<":">>)
            /\ CharRun(s, v, TokenChars) >= RefreshMinLen

\* the keys of SECRET_PATTERNS, in order
SecretNames == <<"Stripe Secret Key", "Supabase Service Role Key", "QBO Refresh Token">>

\* pattern.search(text)
PatternSearch(name, text) ==
  \E i \in 1..Len(text) :
    CASE name = "Stripe Secret Key" -> StripeAt(text, i)
      [] name = "Supabase Service Role Key" -> JwtAt(text, i)
      [] name = "QBO Refresh Token" -> QboAt(text, i)

scan_for_secrets(text) == SelectSeq(SecretNames, LAMBDA name : PatternSearch(name, text))

\* sep.join(parts)
Join(sep, parts) ==
  LET F[k \in 0..Len(parts)] ==
        IF k = 0 THEN <<>>
        ELSE IF k = 1 THEN parts[1]
        ELSE F[k - 1] \o sep \o parts[k]
  IN  F[Len(parts)]

\* ("prompt", "command", "input", "message")
ScannedKeys ==
  << <<"p","r","o","m","p","t">>,
     <<"c","o","m","m","a","n","d">>,
     <<"i","n","p","u","t">>,
     <<"m","e","s","s","a","g","e">> >>

\* the keys a payload is made of: the scanned ones and "note"
FieldKeys == ScannedKeys \o << <<"n","o","t","e">> >>

\* lines 66-70: the strings under the scanned keys, in the order of the keys
TextParts(fields) ==
  LET IsText(k) == \E i \in 1..Len(fields) : fields[i].key = k /\ fields[i].str
      present   == SelectSeq(ScannedKeys, IsText)
      Value(k)  == fields[CHOOSE i \in 1..Len(fields) : fields[i].key = k].text
  IN  [j \in 1..Len(present) |-> Value(present[j])]

\* line 72
TextToScan(stdin) ==
  IF TextParts(stdin.fields) # <<>>
  THEN Join(<<" ">>, TextParts(stdin.fields))
  ELSE stdin.raw

\* the text of a JSON string
JsonString(t) ==
  LET esc    == {i \in 1..Len(t) : t[i] \in {"\"", "\\"}}
      at     == [i \in 1..Len(t) |-> i + Cardinality({e \in esc : e <= i})]
      From(k) == {i \in Max(1, k - Cardinality(esc))..Min(k, Len(t)) : at[i] = k}
      Out(k) == IF From(k) # {} THEN t[CHOOSE i \in From(k) : TRUE] ELSE "\\"
  IN  <<"\"">> \o [k \in 1..(Len(t) + Cardinality(esc)) |-> Out(k)] \o <<"\"">>

\* the text of a JSON value: a string, or the literal of another value
JsonValue(v) == IF v.str THEN JsonString(v.text) ELSE v.text

\* the text of a JSON object
JsonText(fields) ==
  <<"{">>
    \o Join(<<",", " ">>, [i \in 1..Len(fields) |->
                            JsonString(fields[i].key) \o <<":", " ">> \o JsonValue(fields[i])])
    \o <<"}">>

\* the response of lines 75-98
SecretBlockResponse(detected) ==
  [continue |-> FALSE, keys |-> {"continue", "user_message", "agent_message"},
   detected_types |-> detected]

\* the texts payloads are made of
SecretTexts ==
  { <<"d","e","p","l","o","y"," ","t","h","e"," ","a","p","p">>,
    <<"s","k","_","l","i","v","e","_">> \o Rep("a", StripeMinLen),
    <<"s","k","_","t","e","s","t","_">> \o Rep("9", StripeMinLen - 1),
    <<"A","B","1","1">> \o Rep("Z", QboMinLen),
    <<"r","e","f","r","e","s","h","_","t","o","k","e","n">>,
    <<"=">> \o Rep("k", RefreshMinLen),
    <<"r","e","f","r","e","s","h","_","t","o","k","e","n">> \o <<":", " ", "\"">> \o Rep("x", RefreshMinLen),
    JwtHeader \o <<".">> \o Rep("p", JwtPayloadMinLen) \o <<".">> \o Rep("s", JwtSignatureMinLen),
    JwtHeader \o <<".">> \o Rep("p", JwtPayloadMinLen - 1) \o <<".">> \o Rep("s", JwtSignatureMinLen) }

\* the values of a payload's fields: strings, and the number 5
FieldValues ==
  {[str |-> TRUE, text |-> t] : t \in SecretTexts} \cup {[str |-> FALSE, text |-> <<"5">>]}

\* the payloads: at most MaxFields of the keys, each with a value
Payloads ==
  LET picks == { q \in UNION { [1..n -> 1..Len(FieldKeys)] : n \in 0..MaxFields } :
                   \A a, b \in 1..Len(q) : a < b => q[a] < q[b] }
  IN  UNION { { [j \in 1..Len(q) |->
                   [key |-> FieldKeys[q[j]], str |-> v[j].str, text |-> v[j].text]] :
                v \in [1..Len(q) -> FieldValues] } : q \in picks }

\* stdin: text that is not JSON, JSON that is not an object, or a payload
GuardianInputs ==
  { [kind |-> "invalid", raw |-> t, fields |-> <<>>] : t \in SecretTexts \cup {<<>>} }
    \cup { [kind |-> "nonobject", raw |-> r, fields |-> <<>>] :
             r \in {<<"[", "]">>} \cup {JsonValue(v) : v \in FieldValues} }
    \cup { [kind |-> "object", raw |-> JsonText(f), fields |-> f] : f \in Payloads }

InitGuardian ==
  /\ FindSimilarOff
  /\ HookOff
  /\ GuardOff
  /\ LintOff
  /\ ScaffoldOff
  /\ sg_pc = "parse"
  /\ sg_stdin \in GuardianInputs
  /\ sg_text = <<>>
  /\ sg_out = <<>>
  /\ sg_exit = -1

\* lines 55-62
GuardianParse ==
  /\ sg_pc = "parse"
  /\ IF sg_stdin.kind = "invalid"
     THEN /\ sg_out' = Append(sg_out, AllowResponse)
          /\ sg_exit' = 0
          /\ sg_pc' = "exited"
     ELSE /\ sg_pc' = "collect"
          /\ UNCHANGED <<sg_out, sg_exit>>
  /\ UNCHANGED <<sg_stdin, sg_text>>
  /\ UNCHANGED notGuardianVars

\* lines 66-72; data.get on JSON that is not an object raises AttributeError,
\* which ends the process with a traceback and exit code 1
GuardianCollect ==
  /\ sg_pc = "collect"
  /\ IF sg_stdin.kind = "nonobject"
     THEN /\ sg_exit' = 1
          /\ sg_pc' = "exited"
          /\ UNCHANGED sg_text
     ELSE /\ sg_text' = TextToScan(sg_stdin)
          /\ sg_pc' = "respond"
          /\ UNCHANGED sg_exit
  /\ UNCHANGED <<sg_stdin, sg_out>>
  /\ UNCHANGED notGuardianVars

\* lines 73-103
GuardianRespond ==
  /\ sg_pc = "respond"
  /\ sg_out' = Append(sg_out, IF scan_for_secrets(sg_text) # <<>>
                              THEN SecretBlockResponse(scan_for_secrets(sg_text))
                              ELSE AllowResponse)
  /\ sg_exit' = 0
  /\ sg_pc' = "exited"
  /\ UNCHANGED <<sg_stdin, sg_text>>
  /\ UNCHANGED notGuardianVars

NextGuardian == GuardianParse \/ GuardianCollect \/ GuardianRespond

SpecGuardian == InitGuardian /\ [][NextGuardian]_vars

(***************************************************************************)
(* The INSERT scan of lint_file                                            *)
(***************************************************************************)
\* s.strip()
Strip(s) ==
  LET keep == {i \in 1..Len(s) : s[i] \notin WhiteChars}
  IN  IF keep = {} THEN <<>> ELSE SubSeq(s, SetMin(keep), SetMax(keep))

\* RE_INSERT.match(stripped): ^\s*INSERT\s+INTO, ignoring case
StartsInsert(stripped) ==
  LET a == 1 + CharRun(stripped, 1, WhiteChars)
      w == CharRun(stripped, a + 6, WhiteChars)
  IN  /\ HasAt(Lower(stripped), a, <<"i","n","s","e","r","t">>)
      /\ w >= 1
      /\ HasAt(Lower(stripped), a + 6 + w, <<"i","n","t","o">>)

\* s.count(c)
Count(s, c) == Cardinality({i \in 1..Len(s) : s[i] = c})

\* [0-9a-f], ignoring case
HexChars ==
  {Digits[i] : i \in 1..10} \cup {LowerChars[i] : i \in 1..6} \cup {UpperChars[i] : i \in 1..6}

\* the length of a quoted UUID
UuidLen == 38

\* RE_HARDCODED_UUID matches at position i: a quote, 8-4-4-4-12 hex digits
\* and a quote
UuidAt(line, i) ==
  /\ i + UuidLen - 1 <= Len(line)
  /\ line[i] = "'"
  /\ line[i + UuidLen - 1] = "'"
  /\ \A k \in 1..(UuidLen - 2) :
       IF k \in {9, 14, 19, 24} THEN line[i + k] = "-" ELSE line[i + k] \in HexChars

\* RE_HARDCODED_UUID.finditer(line) from position from on: the matches from
\* left to right, none overlapping the one before
RECURSIVE UuidMatches(_, _)
UuidMatches(line, from) ==
  LET hits == {i \in from..Len(line) : UuidAt(line, i)}
  IN  IF hits = {} THEN <<>>
      ELSE <<SubSeq(line, SetMin(hits), SetMin(hits) + UuidLen - 1)>>
             \o UuidMatches(line, SetMin(hits) + UuidLen)

\* is_stub_migration: every line that is not blank is a comment
is_stub_migration(lines) ==
  \A i \in 1..Len(lines) :
    Strip(lines[i]) = <<>> \/ StartsWith(Strip(lines[i]), <<"-","-">>)

\* the lines migration files are made of
LintLines ==
  { <<"I","N","S","E","R","T"," ","I","N","T","O"," ","r","o","l","e","s"," ","(","i","d",","," ","n","a","m","e",")"," ","V","A","L","U","E","S">>,
    <<" "," ","(","'","1","b","4","e","2","8","b","a","-","2","f","a","1","-","1","1","d","2","-","8","8","3","f","-","0","0","1","6","d","3","c","c","a","4","2","7","'",","," ","'","a","d","m","i","n","'",")",";">>,
    <<"i","n","s","e","r","t"," ","i","n","t","o"," ","n","o","t","e","s"," ","(","b","o","d","y",")"," ","v","a","l","u","e","s"," ","(","'","(","'",")",";">>,
    <<"U","P","D","A","T","E"," ","r","o","l","e","s"," ","S","E","T"," ","i","d"," ","="," ","'","1","B","4","E","2","8","B","A","-","2","F","A","1","-","1","1","D","2","-","8","8","3","F","-","0","0","1","6","D","3","C","C","A","4","2","7","'",";">>,
    <<"-","-"," ","s","e","e","d"," ","d","a","t","a">>,
    <<"S","E","L","E","C","T"," ","1",";">> }

InitLint ==
  /\ FindSimilarOff
  /\ HookOff
  /\ GuardOff
  /\ GuardianOff
  /\ ScaffoldOff
  /\ li_pc = "start"
  /\ li_lines \in UNION { [1..n -> LintLines] : n \in 0..MaxLines }
  /\ li_i = 0
  /\ in_insert_block = FALSE
  /\ paren_depth = 0
  /\ li_warnings = <<>>

\* lines 122-129 and 182-183; li_warnings holds the warnings of check 6
\* only, the other checks neither read nor write the state of the scan
LintStart ==
  /\ li_pc = "start"
  /\ li_pc' = IF is_stub_migration(li_lines) THEN "done" ELSE "scan"
  /\ in_insert_block' = FALSE
  /\ paren_depth' = 0
  /\ UNCHANGED <<li_lines, li_i, li_warnings>>
  /\ UNCHANGED notLintVars

\* one iteration of the loop of lines 184-198
LintScanLine ==
  /\ li_pc = "scan"
  /\ li_i < Len(li_lines)
  /\ LET i        == li_i + 1
         line     == li_lines[i]
         stripped == Strip(line)
         entered  == in_insert_block \/ StartsInsert(stripped)
         depth    == (IF StartsInsert(stripped) THEN 0 ELSE paren_depth)
                       + Count(stripped, "(") - Count(stripped, ")")
         found    == UuidMatches(line, 1)
     IN  IF entered
         THEN /\ paren_depth' = depth
              /\ li_warnings' = li_warnings
                                  \o [k \in 1..Len(found) |-> [line |-> i, uuid |-> found[k]]]
              /\ in_insert_block' = ~(Count(stripped, ";") > 0 /\ depth <= 0)
         ELSE UNCHANGED <<paren_depth, li_warnings, in_insert_block>>
  /\ li_i' = li_i + 1
  /\ UNCHANGED <<li_pc, li_lines>>
  /\ UNCHANGED notLintVars

\* the loop of lines 184-198 is over
LintReturn ==
  /\ li_pc = "scan"
  /\ li_i = Len(li_lines)
  /\ li_pc' = "done"
  /\ UNCHANGED <<li_lines, li_i, in_insert_block, paren_depth, li_warnings>>
  /\ UNCHANGED notLintVars

NextLint == LintStart \/ LintScanLine \/ LintReturn

SpecLint == InitLint /\ [][NextLint]_vars

(***************************************************************************)
(* scaffold                                                                *)
(***************************************************************************)
\* [a-z]
LowerSet == {LowerChars[i] : i \in 1..26}

\* [a-z0-9]
LowerDigitSet == LowerSet \cup {Digits[i] : i \in 1..10}

\* [a-z][a-z0-9]*(-[a-z0-9]+)* spans the whole of s
KebabCase(s) ==
  /\ Len(s) >= 1
  /\ s[1] \in LowerSet
  /\ s[Len(s)] # "-"
  /\ \A i \in 1..Len(s) : s[i] \in LowerDigitSet \cup {"-"}
  /\ \A i \in 1..(Len(s) - 1) : ~(s[i] = "-" /\ s[i + 1] = "-")

\* validate_name returns: re.match(r"^[a-z][a-z0-9]*(-[a-z0-9]+)*$", name),
\* where $ matches at the end and also before a newline that ends the name
validate_name(name) ==
  \/ KebabCase(name)
  \/ /\ Len(name) >= 1
     /\ name[Len(name)] = "\n"
     /\ KebabCase(SubSeq(name, 1, Len(name) - 1))

UpperChar(c) ==
  IF \E i \in 1..26 : LowerChars[i] = c
  THEN UpperChars[CHOOSE i \in 1..26 : LowerChars[i] = c]
  ELSE c

\* s.upper()
Upper(s) == [i \in 1..Len(s) |-> UpperChar(s[i])]

Placeholder == <<"{","{","F","U","N","C","T","I","O","N","_","N","A","M","E","}","}">>

\* s.replace(old, new)
RECURSIVE Replace(_, _, _)
Replace(s, old, new) ==
  IF Occurrences(old, s) = {} THEN s
  ELSE LET at == SetMin(Occurrences(old, s))
       IN  SubSeq(s, 1, at - 1) \o new
             \o Replace(SubSeq(s, at + Len(old), Len(s)), old, new)

\* a directory that holds no index.ts
NoFile == <<"<none>">>

\* the function names given to scaffold
ScaffoldNames ==
  { <<"m","y","-","f","n">>,
    <<"a","b","c","\n">>,
    <<"M","y">>,
    <<"a","-","-","b">>,
    <<"a","1">>,
    <<"-","a">>,
    <<>> }

\* sys.argv[1:]: no argument, one name, or a name and a second argument
ScaffoldArgvs ==
  {<<>>} \cup {<<n>> : n \in ScaffoldNames} \cup {<<n, <<"m","y","-","f","n">>>> : n \in ScaffoldNames}

\* the templates
Templates ==
  { <<"l","o","g","(","'","{","{","F","U","N","C","T","I","O","N","_","N","A","M","E","}","}","'",")">>,
    <<"s","e","r","v","e","(",")">> }

\* the names supabase/functions may already hold
ExistingNames ==
  { <<"m","y","-","f","n">>,
    <<"a","b","c","\n">>,
    <<"a","1">> }

\* what a name in supabase/functions may be: a directory without or with
\* an index.ts, a file, or a symbolic link that points nowhere
EntryStates ==
  { [kind |-> "dir", index |-> NoFile],
    [kind |-> "dir", index |-> <<"o","l","d">>],
    [kind |-> "file", index |-> NoFile],
    [kind |-> "dangling", index |-> NoFile] }

InitScaffold ==
  /\ FindSimilarOff
  /\ HookOff
  /\ GuardOff
  /\ GuardianOff
  /\ LintOff
  /\ sc_pc = "args"
  /\ sc_argv \in ScaffoldArgvs
  /\ sc_env \in [root : BOOLEAN, template : Templates, has_template : BOOLEAN,
                 disk_ok : BOOLEAN]
  /\ sc_fs \in UNION { [D -> EntryStates] :
                        D \in {E \in SUBSET ExistingNames : Cardinality(E) <= MaxExisting} }
  /\ sc_fs0 = sc_fs
  /\ sc_exit = -1

\* lines 40-45
ScaffoldArgs ==
  /\ sc_pc = "args"
  /\ IF Len(sc_argv) # 1 \/ ~validate_name(sc_argv[1])
     THEN sc_exit' = 1 /\ sc_pc' = "exited"
     ELSE sc_pc' = "locate" /\ UNCHANGED sc_exit
  /\ UNCHANGED <<sc_argv, sc_env, sc_fs, sc_fs0>>
  /\ UNCHANGED notScaffoldVars

\* target_dir.exists() follows symbolic links
TargetExists(fs, name) == name \in DOMAIN fs /\ fs[name].kind # "dangling"

\* lines 47-61
ScaffoldLocate ==
  /\ sc_pc = "locate"
  /\ IF ~sc_env.root \/ TargetExists(sc_fs, sc_argv[1]) \/ ~sc_env.has_template
     THEN sc_exit' = 1 /\ sc_pc' = "exited"
     ELSE sc_pc' = "mkdir" /\ UNCHANGED sc_exit
  /\ UNCHANGED <<sc_argv, sc_env, sc_fs, sc_fs0>>
  /\ UNCHANGED notScaffoldVars

\* lines 63-68; mkdir on a symbolic link that points nowhere raises
\* FileExistsError, which ends the process with exit code 1
ScaffoldMkdir ==
  /\ sc_pc = "mkdir"
  /\ IF sc_argv[1] \in DOMAIN sc_fs
     THEN sc_exit' = 1 /\ sc_pc' = "exited" /\ UNCHANGED sc_fs
     ELSE /\ sc_fs' = [n \in DOMAIN sc_fs \cup {sc_argv[1]} |->
                         IF n = sc_argv[1] THEN [kind |-> "dir", index |-> NoFile]
                         ELSE sc_fs[n]]
          /\ sc_pc' = "write"
          /\ UNCHANGED sc_exit
  /\ UNCHANGED <<sc_argv, sc_env, sc_fs0>>
  /\ UNCHANGED notScaffoldVars

\* lines 69-75; a write_text the disk refuses raises OSError, which ends the
\* process with exit code 1
ScaffoldWrite ==
  /\ sc_pc = "write"
  /\ IF sc_env.disk_ok
     THEN /\ sc_fs' = [sc_fs EXCEPT ![sc_argv[1]].index =
                         Replace(sc_env.template, Placeholder, Upper(sc_argv[1]))]
          /\ sc_exit' = 0
     ELSE /\ sc_exit' = 1
          /\ UNCHANGED sc_fs
  /\ sc_pc' = "exited"
  /\ UNCHANGED <<sc_argv, sc_env, sc_fs0>>
  /\ UNCHANGED notScaffoldVars

NextScaffold == ScaffoldArgs \/ ScaffoldLocate \/ ScaffoldMkdir \/ ScaffoldWrite

SpecScaffold == InitScaffold /\ [][NextScaffold]_vars

(***************************************************************************)
(* Properties                                                              *)
(***************************************************************************)
\* the loop has processed existing[idx]; base, tax, score, den and overlap
\* are the values of that iteration
Processed == pc \in {"loop", "done"} /\ idx >= 1

\* the last processed component was appended to scored
Kept == scored # <<>> /\ scored[Len(scored)].path = existing[idx].rel_path

\* the number of concept tags
NumTags == Cardinality(DOMAIN SEMANTIC_GROUPS)

\* C1: normalize_name is idempotent: normalizing the normalized key of the
\* target again gives the same key.
C1_Idempotent ==
  pc # "start" => normalize_name(target_norm) = target_norm

\* C2: a target whose normalized key is empty scores below the default
\* threshold against every inventory item, so find_similar returns no match.
C2_EmptyKeyNoMatch ==
  (pc = "done" /\ target_norm = <<>> /\ threshold = FUZZY_THRESHOLD) => result = <<>>

\* C3: every score find_similar reports lies in [0, 1] (0..100 hundredths).
C3_ScoreInUnitInterval ==
  /\ \A i \in 1..Len(scored) : scored[i].score >= 0 /\ scored[i].score <= 100
  /\ \A i \in 1..Len(result) : result[i].score >= 0 /\ result[i].score <= 100

\* C3 witness: a component whose unclamped score exceeds 1.0 was kept and is
\* reported with score 1.0.
C3_Witness ==
  Processed /\ Kept /\ score > 100 * den /\ scored[Len(scored)].score = 100

\* C4: the final score (clamped to 1.0, before rounding) is never below the
\* base ratio, and with base and containment fixed, the final score for an
\* overlap of m + 1 tags is never below the one for m tags.
C4_FloorRaising ==
  Processed =>
    LET c == Contained(target_norm, existing[idx].normalized)
        Final(m) == Clamp(ContainStep(SemanticStep(base, m, den), c, den), den)
    IN  /\ Min(score, 100 * den) >= base
        /\ Final(Cardinality(overlap)) = Min(score, 100 * den)
        /\ \A m \in 0..(NumTags - 1) : Final(m + 1) >= Final(m)

\* C4 witness: a component with a non-empty overlap whose score was raised
\* above a non-zero base ratio.
C4_Witness ==
  Processed /\ overlap # {} /\ base > 0 /\ score > base

\* C5: with an overlap of n >= 1 tags the score before clamping is
\* max(base, 0.60) + 0.15 * n, so it is at least 0.75, passes the default
\* threshold and is reported as at least 0.75; with an empty overlap the
\* taxonomy step leaves the score at the base ratio.
C5_TaxonomySignal ==
  Processed =>
    IF overlap # {}
    THEN LET n == Cardinality(overlap)
             b == IF base >= 60 * den THEN base ELSE 60 * den
         IN  /\ tax = b + 15 * n * den
             /\ score = tax
             /\ score >= 75 * den
             /\ score >= FUZZY_THRESHOLD * den
             /\ threshold = FUZZY_THRESHOLD => Kept
             /\ Kept => scored[Len(scored)].score >= 75
    ELSE tax = base

\* C5 witness: an overlap of two or more tags lifted a base ratio below 0.60
\* and the component was kept under the default threshold.
C5_Witness ==
  /\ Processed
  /\ Cardinality(overlap) >= 2
  /\ base < 60 * den
  /\ threshold = FUZZY_THRESHOLD
  /\ Kept

\* C6: when one normalized key is a substring of the other the final score
\* is at least 0.70, with or without a taxonomy overlap; the containment
\* step never lowers the score the taxonomy step produced.
C6_ContainmentSignal ==
  Processed =>
    LET k == existing[idx].normalized
    IN  /\ score >= tax
        /\ (IsSubstr(target_norm, k) \/ IsSubstr(k, target_norm)) =>
             /\ Min(score, 100 * den) >= 70 * den
             /\ Kept => scored[Len(scored)].score >= 70

\* C6 witness: a component that contains the target key, shares no tag with
\* it and has a base ratio below 0.70 was lifted to exactly 0.70 and kept.
C6_Witness ==
  /\ Processed
  /\ IsSubstr(target_norm, existing[idx].normalized)
  /\ target_norm # <<>>
  /\ overlap = {}
  /\ base < 70 * den
  /\ score = 70 * den
  /\ Kept
  /\ scored[Len(scored)].score = 70

\* C7: the concept groups reported for a match are exactly the tags of the
\* target intersected with the tags of the matched component.
C7_GroupsAreOverlap ==
  /\ \A j \in 1..Len(scored) :
       scored[j].groups =
         get_semantic_groups(normalize_name(target))
           \cap get_semantic_groups(existing[scored[j].path].normalized)
  /\ \A j \in 1..Len(result) :
       result[j].groups =
         get_semantic_groups(normalize_name(target))
           \cap get_semantic_groups(existing[result[j].path].normalized)

\* C7 witness: a returned match without groups, whose component has tags of
\* its own, next to a returned match with groups.
C7_Witness ==
  /\ pc = "done"
  /\ \E i, j \in 1..Len(result) :
       /\ result[i].groups = {}
       /\ get_semantic_groups(existing[result[i].path].normalized) # {}
       /\ result[j].groups # {}

\* C8 (as stated): under the default threshold an inventory item whose
\* normalized key equals the target's is returned with score 1.0 and the
\* concepts of that key.
C8_IdenticalReturned ==
  (pc = "done" /\ threshold = FUZZY_THRESHOLD) =>
    \A i \in 1..Len(existing) :
      existing[i].normalized = target_norm =>
        \E j \in 1..Len(result) :
          /\ result[j].path = i
          /\ result[j].score = 100
          /\ result[j].groups = get_semantic_groups(target_norm)

\* C8 (amended): for a threshold of at most 1.0 an inventory item whose
\* normalized key equals the target's passes the filter with score exactly
\* 1.0 and the concepts of that key; it is in the returned list unless five
\* earlier inventory items with score 1.0 fill the list.
C8_IdenticalKept ==
  threshold <= 100 =>
    \A i \in 1..idx :
      existing[i].normalized = target_norm =>
        LET IsIt(e) == /\ e.path = i
                       /\ e.score = 100
                       /\ e.groups = get_semantic_groups(target_norm)
        IN  /\ \E j \in 1..Len(scored) : IsIt(scored[j])
            /\ pc = "done" =>
                 \/ \E j \in 1..Len(result) : IsIt(result[j])
                 \/ /\ Len(result) = TopK
                    /\ \A j \in 1..Len(result) :
                         result[j].score = 100 /\ result[j].path < i

\* C8 witness: an item with the target's key and a non-empty concept set was
\* returned with score 1.0.
C8_Witness ==
  /\ pc = "done"
  /\ \E i \in 1..Len(existing) :
       /\ existing[i].normalized = target_norm
       /\ get_semantic_groups(target_norm) # {}
       /\ \E j \in 1..Len(result) : result[j].path = i /\ result[j].score = 100

\* C9: for every threshold a component is kept if and only if its final
\* (clamped) score is at least the threshold, so no kept or returned entry
\* reports a score below the threshold.
C9_ThresholdFilter ==
  /\ Processed => (Kept <=> Min(score, 100 * den) >= threshold * den)
  /\ \A j \in 1..Len(scored) : scored[j].score >= threshold
  /\ \A j \in 1..Len(result) : result[j].score >= threshold

\* C10: the returned list is ordered by score descending, and entries with
\* equal scores keep the relative order of their items in the inventory.
C10_SortedStable ==
  pc = "done" =>
    /\ \A j \in 1..Len(result) : \E m \in 1..Len(scored) : scored[m] = result[j]
    /\ \A i, j \in 1..Len(result) :
         i < j => /\ result[i].score >= result[j].score
                  /\ result[i].score = result[j].score => result[i].path < result[j].path

\* C10 witness: the sort moved an entry forward and the returned list holds
\* two entries with the same score.
C10_Witness ==
  /\ pc = "done"
  /\ result # Truncate(scored)
  /\ \E i, j \in 1..Len(result) : i < j /\ result[i].score = result[j].score

\* C11: find_similar returns min(5, number of items that passed the
\* threshold) entries, and no passing item that was left out has a strictly
\* higher score than a returned entry.
C11_TopK ==
  pc = "done" =>
    /\ Len(result) = (IF Len(scored) < 5 THEN Len(scored) ELSE 5)
    /\ \A m \in 1..Len(scored) :
         (\A j \in 1..Len(result) : result[j].path # scored[m].path) =>
           \A j \in 1..Len(result) : scored[m].score <= result[j].score

\* C11 witness: six items passed with two different scores, one of the best
\* among the last of them, and five were returned.
C11_Witness ==
  /\ pc = "done"
  /\ Len(scored) > 5
  /\ Len(result) = 5
  /\ scored[1].score < scored[Len(scored)].score
  /\ \E j \in 1..Len(result) : result[j].path = scored[Len(scored)].path

\* C12 (as stated): with threshold 0.55 and five inventory items that all
\* score above it, the result has exactly 5 entries and is strictly
\* descending by score.
C12_FiveStrictlyDescending ==
  ( /\ pc = "done"
    /\ threshold = FUZZY_THRESHOLD
    /\ Len(existing) = 5
    /\ Len(scored) = 5
    /\ \A m \in 1..Len(scored) : scored[m].score > FUZZY_THRESHOLD ) =>
    /\ Len(result) = 5
    /\ \A j \in 1..(Len(result) - 1) : result[j].score > result[j + 1].score

\* C12 (amended): with threshold 0.55 and five inventory items that all
\* score above it, the result has exactly 5 entries, one per item, and is
\* descending by score; adjacent entries may carry the same score.
C12_FiveDescending ==
  ( /\ pc = "done"
    /\ threshold = FUZZY_THRESHOLD
    /\ Len(existing) = 5
    /\ Len(scored) = 5
    /\ \A m \in 1..Len(scored) : scored[m].score > FUZZY_THRESHOLD ) =>
    /\ Len(result) = 5
    /\ \A i \in 1..Len(existing) : \E j \in 1..Len(result) : result[j].path = i
    /\ \A j \in 1..(Len(result) - 1) : result[j].score >= result[j + 1].score

\* C12 witness: five items all above the threshold were returned, two
\* adjacent entries with the same score and two with different scores.
C12_Witness ==
  /\ pc = "done"
  /\ threshold = FUZZY_THRESHOLD
  /\ Len(existing) = 5
  /\ Len(result) = 5
  /\ \A m \in 1..Len(scored) : scored[m].score > FUZZY_THRESHOLD
  /\ \E j \in 1..4 : result[j].score = result[j + 1].score
  /\ \E j \in 1..4 : result[j].score > result[j + 1].score

\* a occurs in b as a contiguous block
Within(a, b) ==
  \E i \in 0..(Len(b) - Len(a)) : \A j \in 1..Len(a) : b[i + j] = a[j]

\* s without the characters '-', '_' and '.'
NoSeparators(s) == SelectSeq(s, LAMBDA c : c # "-" /\ c # "_" /\ c # ".")

\* C13: extension stripping is case-insensitive: a name ending in a
\* recognized extension in any letter case normalizes to the same key as the
\* name with that extension in lower case; a name without a recognized
\* extension is left unchanged by the extension step.
C13_ExtensionAnyCase ==
  pc # "start" =>
    IF \E e \in Extensions : EndsWith(Lower(target), e)
    THEN LET e == CHOOSE x \in Extensions : EndsWith(Lower(target), x)
             stem == SubSeq(target, 1, Len(target) - Len(e))
         IN  target_norm = normalize_name(stem \o e)
    ELSE StripExtension(target) = target

\* C14: a leading 'use' or 'with', optionally followed by one separator, is
\* removed exactly once: when the lowercased, extension-stripped name is
\* p + rest for such a prefix p, the key is rest without '-', '_' and '.',
\* also when rest begins with 'use' or 'with';
\* normalize_name('useDialog.tsx') = 'dialog' and
\* normalize_name('with-drawer.ts') = 'drawer'.
C14_PrefixOnce ==
  pc # "start" =>
    LET s == Lower(StripExtension(target))
        Prefixes == { w \o x : w \in {<<"u","s","e">>, <<"w","i","t","h">>},
                               x \in {<<>>, <<"-">>, <<"_">>, <<".">>} }
    IN  /\ \A p \in Prefixes :
             StartsWith(s, p) =>
               target_norm = NoSeparators(SubSeq(s, Len(p) + 1, Len(s)))
        /\ target = <<"u","s","e","D","i","a","l","o","g",".","t","s","x">>
             => target_norm = <<"d","i","a","l","o","g">>
        /\ target = <<"w","i","t","h","-","d","r","a","w","e","r",".","t","s">>
             => target_norm = <<"d","r","a","w","e","r">>

\* C14 witness: a name with the prefix 'use-' whose rest begins with 'with',
\* which stays in the key.
C14_Witness ==
  /\ pc # "start"
  /\ StartsWith(Lower(target), <<"u","s","e","-","w","i","t","h">>)
  /\ StartsWith(target_norm, <<"w","i","t","h">>)

\* C15: get_semantic_groups(key) is exactly the set of tags with a synonym
\* token that is a substring of the key or has the key as a substring.
C15_GroupsExact ==
  pc # "start" =>
    /\ target_groups =
         { g \in DOMAIN SEMANTIC_GROUPS :
             \E t \in SEMANTIC_GROUPS[g] : Within(t, target_norm) \/ Within(target_norm, t) }
    /\ Processed =>
         overlap =
           { g \in target_groups :
               \E t \in SEMANTIC_GROUPS[g] :
                 \/ Within(t, existing[idx].normalized)
                 \/ Within(existing[idx].normalized, t) }

\* C15 witness: a non-empty key with several tags, one of them only because
\* the key is a substring of a token, and not all tags.
C15_Witness ==
  /\ pc # "start"
  /\ target_norm # <<>>
  /\ Cardinality(target_groups) >= 2
  /\ Cardinality(target_groups) < NumTags
  /\ \E g \in target_groups :
       /\ \A t \in SEMANTIC_GROUPS[g] : ~Within(t, target_norm)
       /\ \E t \in SEMANTIC_GROUPS[g] : Within(target_norm, t)

\* the hook has exited after running collect_components and find_similar
Searched ==
  /\ h_pc = "exited"
  /\ h_stdin.kind = "path"
  /\ InComponents(h_file_path)
  /\ ~h_exists
  /\ Basename(h_file_path) \notin IndexNames
  /\ ~IsTestOrSpec(Basename(h_file_path))

\* no component of the hook's inventory reaches the default threshold
NoItemReaches ==
  LET tn == normalize_name(Basename(h_file_path))
      tg == get_semantic_groups(tn)
  IN  \A i \in 1..Len(h_existing) :
        CompScore(tn, tg, h_existing[i]) < 55 * Den(tn, h_existing[i].normalized)

\* C16: the inventory built by collect_components has one item per source
\* file of the scanned tree and holds no test/spec file and no index file
\* (index.ts, index.tsx, index.js, index.jsx).
C16_InventoryPolicy ==
  Searched =>
    /\ \A i \in 1..Len(h_existing) :
         /\ ~IsTestOrSpec(h_existing[i].name)
         /\ h_existing[i].name \notin IndexNames
    /\ \A i, j \in 1..Len(h_existing) :
         h_existing[i].rel_path = h_existing[j].rel_path => i = j
    /\ \A i \in 1..Len(h_existing) :
         /\ h_tree # NoDir
         /\ h_existing[i].rel_path \in 1..Len(h_tree)
         /\ h_tree[h_existing[i].rel_path].fname = h_existing[i].name

\* C17: when the inventory is empty or no item reaches the threshold,
\* find_similar returns an empty list and the hook prints only the plain
\* {"continue": true} response, without user_message or agent_message.
C17_NoMatchAllows ==
  (Searched /\ (h_existing = <<>> \/ NoItemReaches)) =>
    /\ h_matches = <<>>
    /\ h_out = <<[continue |-> TRUE, keys |-> {"continue"}]>>
    /\ h_exit = 0

\* C17 witness: the hook searched a non-empty inventory, no item reached
\* the threshold and the plain response was printed.
C17_Witness ==
  /\ Searched
  /\ h_existing # <<>>
  /\ NoItemReaches
  /\ h_out = <<AllowResponse>>

\* C18: the component-check hook never blocks: for every stdin input it
\* prints exactly one response, with continue = true, and exits with 0.
C18_NeverBlocks ==
  h_pc = "exited" =>
    /\ Len(h_out) = 1
    /\ h_out[1].continue = TRUE
    /\ h_exit = 0

\* find_similar computed step by step and as one function agree
FindSimilarAgrees ==
  pc = "done" => result = find_similar(target, existing, threshold)

\* the modified files whose imports a run of architecture-guard examines
GuardChecked ==
  { i \in 1..Len(get_modified_files(ag_stdin)) :
      LET p == get_modified_files(ag_stdin)[i]
      IN  /\ p \in ReadPaths
          /\ ag_fs[p] # Unreadable }

\* the specifier names the features alias itself or something below it
FromFeatures(sp) ==
  \/ normalize_path(sp) = FeaturesAlias
  \/ StartsWith(normalize_path(sp), FeaturesAlias \o <<"/">>)

\* some examined file under src/components/ui/ imports from @/features/*
UiImportsFeature ==
  \E i \in GuardChecked :
    LET p == get_modified_files(ag_stdin)[i]
    IN  /\ IsUiFile(normalize_path(p))
        /\ \E k \in 1..Len(ag_fs[p]) : FromFeatures(ag_fs[p][k].spec)

\* some examined file under src/features/A imports from another feature
\* outside shared types
FeatureImportsOther ==
  \E i \in GuardChecked :
    LET p == get_modified_files(ag_stdin)[i]
    IN  /\ IsFeatureFile(normalize_path(p))
        /\ check_feature_isolation(normalize_path(p), parse_imports(ag_fs[p])) # NoFinding

GuardBlocked == ag_pc = "exited" /\ ag_out = <<BlockResponse>>

\* C19: when architecture-guard has exited, its response is a block exactly
\* when some examined file under src/components/ui/ imports from
\* @/features/*; a Feature Isolation finding without such an import is not a
\* block, and both kinds of finding together are a block.
C19_BlocksIffUiImportsFeature ==
  ag_pc = "exited" =>
    /\ GuardBlocked <=> UiImportsFeature
    /\ FeatureImportsOther /\ ~UiImportsFeature => ~GuardBlocked
    /\ FeatureImportsOther /\ UiImportsFeature => GuardBlocked

\* some string under a scanned key of the payload holds a match of a secret
\* pattern
FieldHoldsSecret ==
  /\ sg_stdin.kind = "object"
  /\ \E i \in 1..Len(TextParts(sg_stdin.fields)) :
       scan_for_secrets(TextParts(sg_stdin.fields)[i]) # <<>>

\* the payload is an object and the text scanned for it holds no match
NothingScannedMatches ==
  /\ sg_stdin.kind = "object"
  /\ scan_for_secrets(TextToScan(sg_stdin)) = <<>>

\* C20: when secret-guardian has exited it has printed exactly one response
\* and its exit code is 0; the response has continue = false when a scanned
\* field of the payload holds a secret, and is {"continue": true} when the
\* scanned text holds none or stdin is not JSON.
C20_OneResponseBlocksSecrets ==
  sg_pc = "exited" =>
    /\ Len(sg_out) = 1
    /\ sg_exit = 0
    /\ FieldHoldsSecret => ~sg_out[1].continue
    /\ NothingScannedMatches \/ sg_stdin.kind = "invalid" => sg_out = <<AllowResponse>>

\* the line holds a semicolon outside a quoted literal
EndsStatement(line) ==
  \E i \in 1..Len(line) :
    /\ line[i] = ";"
    /\ Cardinality({j \in 1..(i - 1) : line[j] = "'"}) % 2 = 0

\* line k belongs to an INSERT statement: the statement begins at a line
\* starting with INSERT INTO, and no line from there to before k ends it
InInsertStatement(lines, k) ==
  \E s \in 1..k :
    /\ StartsInsert(Strip(lines[s]))
    /\ \A j \in s..(k - 1) : ~EndsStatement(lines[j])

\* C21: every hardcoded UUID the INSERT scan reports is on a line that
\* belongs to an INSERT statement, and while the scan is inside an insert
\* block the last line it processed belongs to an INSERT statement which
\* that line does not end.
C21_UuidOnlyInInsert ==
  /\ \A w \in 1..Len(li_warnings) : InInsertStatement(li_lines, li_warnings[w].line)
  /\ li_pc = "scan" /\ in_insert_block =>
       /\ li_i >= 1
       /\ InInsertStatement(li_lines, li_i)
       /\ ~EndsStatement(li_lines[li_i])

\* the run was given one valid kebab-case name that supabase/functions did
\* not hold, and the template file exists
MayCreate ==
  /\ Len(sc_argv) = 1
  /\ KebabCase(sc_argv[1])
  /\ sc_argv[1] \notin DOMAIN sc_fs0
  /\ sc_env.has_template

\* C22: scaffold changes nothing that supabase/functions held; when it has
\* exited, whatever it added is the directory of the given name with its
\* index.ts, added only for a valid kebab-case name that did not exist and
\* with the template present, and in every other case the exit code is 1 and
\* supabase/functions is as it was.
C22_CreatesOnlyWhenValid ==
  /\ \A n \in DOMAIN sc_fs0 : n \in DOMAIN sc_fs /\ sc_fs[n] = sc_fs0[n]
  /\ sc_pc = "exited" =>
       /\ \A n \in DOMAIN sc_fs \ DOMAIN sc_fs0 :
            MayCreate /\ sc_argv = <<n>> /\ sc_fs[n].kind = "dir" /\ sc_fs[n].index # NoFile
       /\ ~MayCreate => sc_exit = 1 /\ sc_fs = sc_fs0

TypeOK ==
  /\ pc \in {"start", "loop", "done"}
  /\ idx \in 0..Len(existing)
  /\ Len(scored) <= idx
  /\ Len(result) <= TopK
====
